---------------------------- MODULE Spec2Model ----------------------------
(***************************************************************************)
(* Model of the reconciliation engine of CronJobs10min:                    *)
(*   - the SKU resolver                 (src/unnamed/part_000)             *)
(*   - runOnce: alert manager and shipment stock deductor                  *)
(*                                      (src/src/lib/supabase.js 46-355)   *)
(*   - the batched shipment merger      (src/src/jobs/backfillShipments..) *)
(*   - the order tracking backfiller    (src/src/jobs/fixShippedOrders..)  *)
(* Text values are sequences of one-character strings so that              *)
(* normalisation, trimming and prefix tests are computed, not assumed.     *)
(* The store is the remote relational store: a table is a function from    *)
(* row ids to rows, or a sequence of rows where the order matters.         *)
(***************************************************************************)
EXTENDS Integers, Sequences, FiniteSets, TLC

VARIABLES
    stock,        \* inventory_stock_levels: row id -> row
    movements,    \* inventory_movements: row id -> row
    dShipments,   \* shipments in the lookback window, ascending created_at
    dpc,          \* Deductor position: "idle" | "page" | "lines"
    dPage,        \* Deductor: page counter of the while loop
    dRows,        \* Deductor: rows of the fetched page
    dIdx,         \* Deductor: index of the shipment of the page being handled
    dLines,       \* Deductor: remaining (sku, qty) entries of qtyBySku
    dMarker,      \* Deductor: movementForRecon as read by the lookup
    dStock,       \* Deductor: the stock row as read by the stock lookup
    dRuns,        \* number of completed Deductor runs
    dErrs,        \* number of store calls that returned an error so far
    dDeduct,      \* history: <<shipment id, sku>> -> successful stock updates
    dStamp,       \* history: <<shipment id, sku>> -> successful sentinel writes
    dWrites,      \* history: shipment id -> write calls issued on its behalf
    dErrAt,       \* history: <<call, shipment id>> of the last failed call
    dStock0,      \* history: the stock table before the first run
    dMov0,        \* history: the movement table before the first run
    shipTbl,      \* shipments table of the Merger and the Backfiller
    orders,       \* orders table
    ssEvents,     \* shipstation_events feed, ascending create_date
    seEvents,     \* shipengine_events feed, ascending create_date
    ledger,       \* label_ledger rows, ascending created_at
    mpc,          \* Merger position
    mSrc,         \* Merger: the feed being processed, "ss" or "se"
    mPage,        \* Merger: page counter
    mData,        \* Merger: events of the fetched page
    mExisting,    \* Merger: existingMap, tracking number -> row read
    mOrderRows,   \* Merger: rows of the batch order lookup
    mInserts,     \* Merger: candidates to insert
    mUpdates,     \* Merger: {id, update} entries to apply
    bpc,          \* Backfiller position
    bPage,        \* Backfiller: page counter
    bRows,        \* Backfiller: orders of the fetched page
    bIdx,         \* Backfiller: index of the order being handled
    bFound,       \* Backfiller: the { tracking, shipDateIso } found
    bQueried,     \* Backfiller: the source queries issued for the order
    jobs,         \* number of Merger and Backfiller runs started
    mErrs         \* store calls of these two jobs that returned an error

\* Alert Manager: the awaiting order lines, the stock-level rows and the
\* alert rows of the store, what the store does with a conflict key and with
\* a null in a filter, the position and the maps of the current run, and the
\* history of the runs
VARIABLES aItems, aStock, aAlerts, aHasIndex, aNullEq, apc, aDemand,
          aPickable, aBack, aTotal, aIdx, aPayload, aExisting, aRuns, aErrs,
          aRunErr, aFresh, aLast

\* fill-missing merge on its own: an existing record, a candidate, the
\* update built and the record after the update
VARIABLES fExisting, fCandidate, fUpdate, fMerged, fpc

\* SKU resolver on its own: a raw SKU, the catalog rows the maps are built
\* from, and what resolveSku returned
VARIABLES rRaw, rProducts, rBundles, rResult, rpc

\* a second run of the Deductor that overlaps the first: the locals of the run
\* that is waiting on a store call while the other one proceeds
VARIABLES dOther

\* line-item flattening on its own: a shipment_items payload, the quantity map
\* built from it, the position of the loop over the map and the entries the
\* loop went on to process
VARIABLES lRaw, lQtyBySku, lIdx, lAttempts, lpc

dvars == <<stock, movements, dShipments, dpc, dPage, dRows, dIdx, dLines,
           dMarker, dStock, dRuns, dErrs, dErrAt, dDeduct, dStamp, dWrites, dStock0, dMov0>>

mvars == <<shipTbl, orders, ssEvents, seEvents, ledger, mpc, mSrc, mPage,
           mData, mExisting, mOrderRows, mInserts, mUpdates, bpc, bPage,
           bRows, bIdx, bFound, bQueried, jobs, mErrs>>

bvars == <<bpc, bPage, bRows, bIdx, bFound, bQueried>>

mlocals == <<mpc, mSrc, mPage, mData, mExisting, mOrderRows, mInserts, mUpdates>>

avars == <<aItems, aStock, aAlerts, aHasIndex, aNullEq, apc, aDemand,
           aPickable, aBack, aTotal, aIdx, aPayload, aExisting, aRuns, aErrs,
           aRunErr, aFresh, aLast>>

fvars == <<fExisting, fCandidate, fUpdate, fMerged, fpc>>

rvars == <<rRaw, rProducts, rBundles, rResult, rpc>>

xvars == <<dOther>>

lvars == <<lRaw, lQtyBySku, lIdx, lAttempts, lpc>>

vars == <<dvars, mvars, avars, fvars, rvars, xvars, lvars>>

\* what the steps of each component leave alone
notD == <<mvars, avars, fvars, rvars, xvars, lvars>>

notM == <<dvars, avars, fvars, rvars, xvars, lvars>>

notA == <<dvars, mvars, fvars, rvars, xvars, lvars>>

notF == <<dvars, mvars, avars, rvars, xvars, lvars>>

notR == <<dvars, mvars, avars, fvars, xvars, lvars>>

notL == <<dvars, mvars, avars, fvars, rvars, xvars>>

-----------------------------------------------------------------------------
(* Bounds of the model *)

MaxShipments == 2
MaxRuns == 2
MaxStock == 2
MaxErrs == 1
MaxEvents == 2
MaxJobs == 3
MaxAlertRuns == 2
MaxItems == 2
MaxStockRows == 2
MaxOnHand == 4
MaxFields == 2
MaxSkuLen == 3
MaxCatalog == 2
MaxLines == 3

(* Page size and page ceiling of the reconciliation loop, scaled down *)
RECON_PAGE_SIZE == 2
RECON_MAX_PAGES == 2

(* Page size and page ceiling of the Merger, scaled down *)
PAGE_SIZE == 2
MAX_PAGES == 2

(* Page size and page ceiling of the Backfiller, scaled down *)
FIX_PAGE_SIZE == 2
FIX_MAX_PAGES == 2

Null == "null"

-----------------------------------------------------------------------------
(* Text helpers *)

Lower(c) ==
    CASE c = "A" -> "a"
      [] c = "B" -> "b"
      [] c = "K" -> "k"
      [] OTHER -> c

IsSpace(c) == c = " "

\* String(raw || '').toLowerCase().replace(/\s+/g, '')
RECURSIVE normalizeSku(_)
normalizeSku(raw) ==
    IF raw = <<>> THEN <<>>
    ELSE IF IsSpace(Head(raw)) THEN normalizeSku(Tail(raw))
    ELSE <<Lower(Head(raw))>> \o normalizeSku(Tail(raw))

\* norm.startsWith(key)
StartsWith(s, key) ==
    /\ Len(key) <= Len(s)
    /\ SubSeq(s, 1, Len(key)) = key

\* String.prototype.trim
RECURSIVE TrimLeft(_)
TrimLeft(s) ==
    IF s = <<>> THEN <<>>
    ELSE IF IsSpace(Head(s)) THEN TrimLeft(Tail(s))
    ELSE s

RECURSIVE TrimRight(_)
TrimRight(s) ==
    IF s = <<>> THEN <<>>
    ELSE IF IsSpace(s[Len(s)]) THEN TrimRight(SubSeq(s, 1, Len(s) - 1))
    ELSE s

Trim(s) == TrimRight(TrimLeft(s))

IsSep(c) == c \in {"-", "_", "."}

\* a fallback that does not split
WholeSku(s) == s

\* norm.split(/[-_.]/)[0]
RECURSIVE FirstSegment(_)
FirstSegment(s) ==
    IF s = <<>> THEN <<>>
    ELSE IF IsSep(Head(s)) THEN <<>>
    ELSE <<Head(s)>> \o FirstSegment(Tail(s))

-----------------------------------------------------------------------------
(* SKU resolver *)

\* The catalog rows the runs read: products(id, Sku) and bundle(id, name)
Products == << [id |-> "p1", Sku |-> <<"a">>],
               [id |-> "p2", Sku |-> <<"B">>] >>
Bundles  == << [id |-> "k1", name |-> <<"k">>] >>

\* one map of buildSkuMaps: rows with an empty key are left out and the last
\* row with a given normalized key wins
MapOf(rows, keys) ==
    LET idx == {i \in 1..Len(rows) : keys[i] # <<>>}
        K   == {normalizeSku(keys[i]) : i \in idx}
        last(k) == CHOOSE i \in idx :
                      /\ normalizeSku(keys[i]) = k
                      /\ \A j \in idx : normalizeSku(keys[j]) = k => j <= i
    IN [k \in K |-> rows[last(k)]]

productMap == MapOf(Products, [i \in 1..Len(Products) |-> Products[i].Sku])
bundleMap  == MapOf(Bundles, [i \in 1..Len(Bundles) |-> Bundles[i].name])

\* the longest key of the map that is a prefix of norm; <<>> when none
BestPrefixKey(norm, map) ==
    LET cands == {k \in DOMAIN map : StartsWith(norm, k) /\ Len(k) > 0}
    IN IF cands = {} THEN <<>>
       ELSE CHOOSE k \in cands : \A j \in cands : Len(j) <= Len(k)

\* a resolver that takes the longer of the two prefix matches
resolveSkuLongestOfBoth(rawSku, pMap, bMap) ==
    LET norm == normalizeSku(rawSku)
        bestBundleKey  == BestPrefixKey(norm, bMap)
        bestProductKey == BestPrefixKey(norm, pMap)
    IN IF rawSku = <<>> THEN [baseSku |-> <<>>, matchType |-> Null, entity |-> Null]
       ELSE IF norm \in DOMAIN bMap
         THEN [baseSku |-> norm, matchType |-> "bundle", entity |-> bMap[norm].id]
       ELSE IF norm \in DOMAIN pMap
         THEN [baseSku |-> norm, matchType |-> "product", entity |-> pMap[norm].id]
       ELSE IF bestBundleKey # <<>> /\ Len(bestBundleKey) >= Len(bestProductKey)
         THEN [baseSku |-> bestBundleKey, matchType |-> "bundle",
               entity |-> bMap[bestBundleKey].id]
       ELSE IF bestProductKey # <<>>
         THEN [baseSku |-> bestProductKey, matchType |-> "product",
               entity |-> pMap[bestProductKey].id]
       ELSE [baseSku |-> FirstSegment(norm), matchType |-> Null, entity |-> Null]

\* a resolver that tries the prefix matches before the exact ones
resolveSkuPrefixFirst(rawSku, pMap, bMap) ==
    LET norm == normalizeSku(rawSku)
        bestBundleKey  == BestPrefixKey(norm, bMap)
        bestProductKey == BestPrefixKey(norm, pMap)
    IN IF rawSku = <<>> THEN [baseSku |-> <<>>, matchType |-> Null, entity |-> Null]
       ELSE IF bestBundleKey # <<>>
         THEN [baseSku |-> bestBundleKey, matchType |-> "bundle",
               entity |-> bMap[bestBundleKey].id]
       ELSE IF bestProductKey # <<>>
         THEN [baseSku |-> bestProductKey, matchType |-> "product",
               entity |-> pMap[bestProductKey].id]
       ELSE [baseSku |-> FirstSegment(norm), matchType |-> Null, entity |-> Null]

resolveSku(rawSku, pMap, bMap) ==
    IF rawSku = <<>> THEN [baseSku |-> <<>>, matchType |-> Null, entity |-> Null]
    ELSE
    LET norm == normalizeSku(rawSku)
        bestBundleKey  == BestPrefixKey(norm, bMap)
        bestProductKey == BestPrefixKey(norm, pMap)
    IN IF norm \in DOMAIN bMap
         THEN [baseSku |-> norm, matchType |-> "bundle", entity |-> bMap[norm].id]
       ELSE IF norm \in DOMAIN pMap
         THEN [baseSku |-> norm, matchType |-> "product", entity |-> pMap[norm].id]
       ELSE IF bestBundleKey # <<>>
         THEN [baseSku |-> bestBundleKey, matchType |-> "bundle",
               entity |-> bMap[bestBundleKey].id]
       ELSE IF bestProductKey # <<>>
         THEN [baseSku |-> bestProductKey, matchType |-> "product",
               entity |-> pMap[bestProductKey].id]
       ELSE [baseSku |-> FirstSegment(norm), matchType |-> Null, entity |-> Null]

-----------------------------------------------------------------------------
(* Shipment Stock Deductor: step 6 of runOnce *)

Sentinel == "Reconciled via cron"

NoMarker == [id |-> 0, notes |-> <<>>, sku |-> <<>>]
NoStock  == [id |-> 0, on_hand |-> 0, available |-> 0]

\* a map whose entry holds the quantity of the last line of the SKU
AddQtyLastLine(acc, sku, qty) ==
    IF \E i \in 1..Len(acc) : acc[i].sku = sku
    THEN [i \in 1..Len(acc) |->
            IF acc[i].sku = sku THEN [sku |-> sku, qty |-> qty] ELSE acc[i]]
    ELSE Append(acc, [sku |-> sku, qty |-> qty])

\* qtyBySku.set(skuCanon, (qtyBySku.get(skuCanon) || 0) + qty): a Map keeps the
\* order of first insertion
AddQty(acc, sku, qty) ==
    IF \E i \in 1..Len(acc) : acc[i].sku = sku
    THEN [i \in 1..Len(acc) |->
            IF acc[i].sku = sku THEN [sku |-> sku, qty |-> acc[i].qty + qty]
            ELSE acc[i]]
    ELSE Append(acc, [sku |-> sku, qty |-> qty])

\* the per-canonical-SKU quantity map of one shipment's line items
RECURSIVE Flatten(_, _)
Flatten(items, acc) ==
    IF items = <<>> THEN acc
    ELSE LET itm == Head(items)
         IN IF itm.sku = <<>> \/ itm.quantity = 0
            THEN Flatten(Tail(items), acc)
            ELSE Flatten(Tail(items),
                         AddQty(acc, normalizeSku(itm.sku), itm.quantity))

\* the explicit lookup without its reference_id filter
ByShipmentRowsAnyId(s) ==
    {m \in DOMAIN movements : movements[m].reference_type = "shipment"}

\* rows of .eq('reference_type','shipment').eq('reference_id', String(s.id))
ByShipmentRows(s) ==
    {m \in DOMAIN movements :
        /\ movements[m].reference_type = "shipment"
        /\ movements[m].reference_id = s.id}

Contains(notes, token) == \E i \in 1..Len(notes) : notes[i] = token

\* rows of .eq('reason','order_shipment').ilike('notes', %order_number%),
\* the most recent first: the candidates for .limit(1)
ByOrderNoteRows(s) ==
    LET hits == {m \in DOMAIN movements :
                    /\ movements[m].reason = "order_shipment"
                    /\ Contains(movements[m].notes, s.order_number)}
    IN {m \in hits : \A j \in hits :
            movements[j].created_at <= movements[m].created_at}

Snapshot(m) == [id |-> m, notes |-> movements[m].notes, sku |-> movements[m].sku]

\* a check that takes no marker for reconciled
neverReconciled(marker) == FALSE

\* typeof notes === 'string' && notes.includes('Reconciled via cron')
alreadyReconciled(marker) == Contains(marker.notes, Sentinel)

\* itemType / itemId of lines 289-294: the resolver of this repository yields
\* bundle, product or no match
ItemOf(skuCanon) ==
    LET resolved == resolveSku(skuCanon, productMap, bundleMap)
    IN IF resolved.matchType = "product"
       THEN [itemType |-> "product", itemId |-> resolved.entity]
       ELSE [itemType |-> Null, itemId |-> Null]

\* .eq(item_type).eq(item_id).in(location type, [Batch, Production])
\* .order('available', desc).limit(1): the candidates for the single best row
BestStockRows(item) ==
    LET hits == {r \in DOMAIN stock :
                    /\ stock[r].item_type = item.itemType
                    /\ stock[r].item_id = item.itemId
                    /\ stock[r].loc_type \in {"Batch", "Production"}}
    IN {r \in hits : \A j \in hits : stock[j].available <= stock[r].available}

CanErr == dErrs < MaxErrs

\* a store call returns { error }: counted, and remembered for the properties
Fails(call, sid) ==
    /\ CanErr
    /\ dErrs' = dErrs + 1
    /\ dErrAt' = <<call, sid>>

NoFail == UNCHANGED <<dErrs, dErrAt>>

\* history counters: a key that was never counted is absent
Count(f, k) == IF k \in DOMAIN f THEN f[k] ELSE 0
Bump(f, k) == [x \in DOMAIN f \cup {k} |-> IF x = k THEN Count(f, k) + 1 ELSE f[x]]

Cur == dRows[dIdx]

\* `continue` of the loop over qtyBySku
SkipLine ==
    /\ dLines' = Tail(dLines)
    /\ dpc' = "line"
    /\ dMarker' = NoMarker
    /\ dStock' = NoStock

\* lines 276-298, run once the marker lookup has its result
AfterLookup(marker) ==
    LET item == ItemOf(Head(dLines).sku)
    IN IF marker.id = 0 \/ alreadyReconciled(marker) \/ item.itemType = Null
       THEN SkipLine
       ELSE /\ dMarker' = marker
            /\ dpc' = "stockFind"
            /\ UNCHANGED <<dLines, dStock>>

\* the run is started by its schedule; the model runs one job at a time
StartRun ==
    /\ dpc = "idle"
    /\ mpc = "idle"
    /\ bpc = "idle"
    /\ dRuns < MaxRuns
    /\ dpc' = "page"
    /\ dPage' = 0
    /\ UNCHANGED <<stock, movements, dShipments, dRows, dIdx, dLines, dMarker,
                   dStock, dRuns, dErrs, dErrAt, dDeduct, dStamp, dWrites,
                   dStock0, dMov0>>
    /\ UNCHANGED notD

\* a loop that goes back to its first page instead of ending
FinishRunRestart ==
    /\ dpc' = "page"
    /\ dRuns' = dRuns
    /\ dRows' = <<>>
    /\ dIdx' = 0
    /\ dLines' = <<>>
    /\ dPage' = 0

FinishRun ==
    /\ dpc' = "idle"
    /\ dRuns' = dRuns + 1
    /\ dRows' = <<>>
    /\ dIdx' = 0
    /\ dLines' = <<>>
    /\ dPage' = 0

\* the page of .range(from, to) over the shipments of the window
PageRows(page) ==
    LET from == page * RECON_PAGE_SIZE
        to   == from + RECON_PAGE_SIZE - 1
    IN SubSeq(dShipments, from + 1,
              IF to + 1 < Len(dShipments) THEN to + 1 ELSE Len(dShipments))

\* start of the for loop over one shipment: a payload whose items member is
\* not iterable throws and the catch of line 350 ends the run
EnterShipment(rows, i) ==
    IF rows[i].bad
    THEN FinishRun
    ELSE /\ dRows' = rows
         /\ dIdx' = i
         /\ dLines' = Flatten(rows[i].items, <<>>)
         /\ dpc' = "line"
         /\ UNCHANGED <<dPage, dRuns>>

\* lines 213-227
FetchPage ==
    /\ dpc = "page"
    /\ \/ /\ dPage >= RECON_MAX_PAGES
          /\ FinishRun
          /\ NoFail
       \/ /\ dPage < RECON_MAX_PAGES
          /\ Fails("fetch", 0)
          /\ FinishRun
       \/ /\ dPage < RECON_MAX_PAGES
          /\ PageRows(dPage) = <<>>
          /\ FinishRun
          /\ NoFail
       \/ /\ dPage < RECON_MAX_PAGES
          /\ PageRows(dPage) # <<>>
          /\ EnterShipment(PageRows(dPage), 1)
          /\ NoFail
    /\ UNCHANGED <<stock, movements, dShipments, dMarker, dStock,
                   dDeduct, dStamp, dWrites, dStock0, dMov0>>
    /\ UNCHANGED notD

\* head of the loop over qtyBySku (243-244), end of a shipment, end of a page
\* (345-347)
NextLine ==
    /\ dpc = "line"
    /\ \/ /\ dLines # <<>>
          /\ Head(dLines).sku = <<>> \/ Head(dLines).qty = 0
          /\ dLines' = Tail(dLines)
          /\ UNCHANGED <<dpc, dPage, dRows, dIdx, dRuns>>
       \/ /\ dLines # <<>>
          /\ Head(dLines).sku # <<>> /\ Head(dLines).qty # 0
          /\ dpc' = "byShipment"
          /\ UNCHANGED <<dLines, dPage, dRows, dIdx, dRuns>>
       \/ /\ dLines = <<>>
          /\ dIdx < Len(dRows)
          /\ EnterShipment(dRows, dIdx + 1)
       \/ /\ dLines = <<>>
          /\ dIdx = Len(dRows)
          /\ Len(dRows) < RECON_PAGE_SIZE
          /\ FinishRun
       \/ /\ dLines = <<>>
          /\ dIdx = Len(dRows)
          /\ Len(dRows) >= RECON_PAGE_SIZE
          /\ dPage' = dPage + 1
          /\ dpc' = "page"
          /\ UNCHANGED <<dRows, dIdx, dLines, dRuns>>
    /\ UNCHANGED <<stock, movements, dShipments, dMarker, dStock, dErrs,
                   dErrAt, dDeduct, dStamp, dWrites, dStock0, dMov0>>
    /\ UNCHANGED notD

\* lines 251-259 and, when the shipment has no order number, 276-298
LookupByShipment ==
    /\ dpc = "byShipment"
    /\ \/ \E m \in ByShipmentRows(Cur) :
             /\ AfterLookup(Snapshot(m))
             /\ NoFail
       \/ /\ \/ ByShipmentRows(Cur) = {} /\ NoFail
             \/ Fails("lookup", Cur.id)
          /\ IF Cur.order_number # Null
             THEN /\ dpc' = "byOrderNote"
                  /\ UNCHANGED <<dLines, dMarker, dStock>>
             ELSE AfterLookup(NoMarker)
    /\ UNCHANGED <<stock, movements, dShipments, dPage, dRows, dIdx, dRuns,
                   dDeduct, dStamp, dWrites, dStock0, dMov0>>
    /\ UNCHANGED notD

\* lines 261-272 and 276-298
LookupByOrderNote ==
    /\ dpc = "byOrderNote"
    /\ \/ \E m \in ByOrderNoteRows(Cur) :
             /\ AfterLookup(Snapshot(m))
             /\ NoFail
       \/ /\ \/ ByOrderNoteRows(Cur) = {} /\ NoFail
             \/ Fails("lookup", Cur.id)
          /\ AfterLookup(NoMarker)
    /\ UNCHANGED <<stock, movements, dShipments, dPage, dRows, dIdx, dRuns,
                   dDeduct, dStamp, dWrites, dStock0, dMov0>>
    /\ UNCHANGED notD

\* const available = (stock?.available ?? stock?.on_hand ?? 0)
AvailableOf(row) == row.available

\* available < qty: the line is skipped
Insufficient(row, qty) == AvailableOf(row) < qty

\* lines 301-318
StockFind ==
    /\ dpc = "stockFind"
    /\ LET rows == BestStockRows(ItemOf(Head(dLines).sku))
           qty  == Head(dLines).qty
       IN \/ /\ Fails("stockFind", Cur.id)
             /\ SkipLine
          \/ /\ rows = {}
             /\ SkipLine
             /\ NoFail
          \/ \E r \in rows :
                /\ Insufficient(stock[r], qty)
                /\ SkipLine
                /\ NoFail
          \/ \E r \in rows :
                /\ ~Insufficient(stock[r], qty)
                /\ dStock' = [id |-> r, on_hand |-> stock[r].on_hand,
                              available |-> stock[r].available]
                /\ dpc' = "stockUpd"
                /\ NoFail
                /\ UNCHANGED <<dLines, dMarker>>
    /\ UNCHANGED <<stock, movements, dShipments, dPage, dRows, dIdx, dRuns,
                   dDeduct, dStamp, dWrites, dStock0, dMov0>>
    /\ UNCHANGED notD

\* const newOnHand = (stock.on_hand || 0) - qty
newOnHand(row, qty) == row.on_hand - qty

\* lines 321-329: the update writes on_hand (and updated_at) of the row
StockUpdate ==
    /\ dpc = "stockUpd"
    /\ dWrites' = Bump(dWrites, Cur.id)
    /\ \/ /\ Fails("stockUpd", Cur.id)
          /\ SkipLine
          /\ UNCHANGED <<stock, dDeduct>>
       \/ /\ stock' = [stock EXCEPT ![dStock.id].on_hand =
                            newOnHand(dStock, Head(dLines).qty)]
          /\ dDeduct' = Bump(dDeduct, <<Cur.id, Head(dLines).sku>>)
          /\ dpc' = "stamp"
          /\ NoFail
          /\ UNCHANGED <<dLines, dMarker, dStock>>
    /\ UNCHANGED <<movements, dShipments, dPage, dRows, dIdx, dRuns,
                   dStamp, dStock0, dMov0>>
    /\ UNCHANGED notD

\* a stamp that puts the sentinel in place of the notes
replacedNotes(marker) == <<Sentinel>>

\* `${notes ? notes + ' | ' : ''}Reconciled via cron`
updatedNotes(marker) == Append(marker.notes, Sentinel)

\* lines 332-341: the marker is the row read by the lookup of this line
StampMarker ==
    /\ dpc = "stamp"
    /\ dWrites' = Bump(dWrites, Cur.id)
    /\ \/ /\ Fails("stamp", Cur.id)
          /\ UNCHANGED <<movements, dStamp>>
       \/ /\ movements' = [movements EXCEPT ![dMarker.id] =
                 [@ EXCEPT !.notes = updatedNotes(dMarker),
                           !.sku = IF dMarker.sku = <<>>
                                   THEN Head(dLines).sku ELSE @]]
          /\ dStamp' = Bump(dStamp, <<Cur.id, Head(dLines).sku>>)
          /\ NoFail
    /\ SkipLine
    /\ UNCHANGED <<stock, dShipments, dPage, dRows, dIdx, dRuns,
                   dDeduct, dStock0, dMov0>>
    /\ UNCHANGED notD

\* Line-item payloads of the shipments the runs are tried on
Item(sku, q) == [sku |-> sku, quantity |-> q]

ShipmentPool ==
    { [items |-> <<Item(<<"a">>, 1)>>, order_number |-> Null, bad |-> FALSE],
      [items |-> <<Item(<<"a">>, 1), Item(<<"A", " ">>, 1)>>,
       order_number |-> "o1", bad |-> FALSE],
      [items |-> <<Item(<<"a">>, 1), Item(<<"B">>, 1)>>,
       order_number |-> Null, bad |-> FALSE],
      [items |-> <<Item(<<"a">>, -1)>>, order_number |-> Null, bad |-> FALSE],
      [items |-> <<Item(<<"z">>, 1), Item(<<" ">>, 1), Item(<<"a">>, 1),
                   Item(<<"a">>, -1), Item(<<"k">>, 1)>>,
       order_number |-> "o1", bad |-> FALSE],
      [items |-> <<>>, order_number |-> Null, bad |-> TRUE] }

Filler == [items |-> <<Item(<<"a">>, 1)>>, order_number |-> Null, bad |-> FALSE]

WithId(t, i) == [id |-> i, items |-> t.items, order_number |-> t.order_number,
                 bad |-> t.bad]

\* the shipments of the window: up to MaxShipments drawn from the pool; the
\* longest lists also come followed by plain shipments that fill every page
\* up to the page ceiling
ShipmentLists ==
    LET free == UNION {[1..n -> ShipmentPool] : n \in 0..MaxShipments}
        full == RECON_PAGE_SIZE * RECON_MAX_PAGES
    IN UNION {
         { [i \in 1..(Len(f) + k) |->
               IF i <= Len(f) THEN WithId(f[i], i) ELSE WithId(Filler, i)] :
           k \in {0} \cup (IF Len(f) = MaxShipments /\ Len(f) < full
                           THEN {full - Len(f)} ELSE {}) } :
         f \in free }

Movement(rt, rid, reason, notes, at) ==
    [reference_type |-> rt, reference_id |-> rid, reason |-> reason,
     notes |-> notes, sku |-> <<>>, created_at |-> at]

\* inventory_movements tables the runs are tried on: a row tagged with
\* shipment 1, a row tagged with shipment 2 (fresh or already stamped) and an
\* order_shipment row whose notes name order o1 and whose sku column is
\* already filled, each present or not
MovementTables ==
    LET m1 == Movement("shipment", 1, "pick", <<>>, 1)
        m2(n) == Movement("shipment", 2, "pick", n, 2)
        m3 == [Movement(Null, 0, "order_shipment", <<"o1">>, 3)
                  EXCEPT !.sku = <<"q">>]
    IN { [m \in D |-> CASE m = 1 -> m1
                         [] m = 2 -> m2(n)
                         [] m = 3 -> m3] :
         D \in SUBSET {1, 2, 3}, n \in {<<>>, <<"shipped", Sentinel>>} }

StockRow(ty, id, loc, oh, av) ==
    [item_type |-> ty, item_id |-> id, loc_type |-> loc, on_hand |-> oh,
     available |-> av]

\* inventory_stock_levels tables: on_hand >= 0 and available <= on_hand; row 5
\* is the Batch row of the client product of client-inventory row 4
StockTables ==
    { [r \in 1..5 |->
         CASE r = 1 -> StockRow("product", "p1", "Batch", oh, av)
           [] r = 2 -> StockRow("product", "p1", "Production", 1, 1)
           [] r = 3 -> StockRow("product", "p2", "Batch", 1, 1)
           [] r = 4 -> StockRow("product", "p1", "Pickable",
                                MaxStock + 1, MaxStock + 1)
           [] r = 5 -> StockRow("client_product", "4", "Batch", 1, 1)] :
      oh \in 0..MaxStock, av \in 0..MaxStock }

NextD ==
    \/ StartRun
    \/ FetchPage
    \/ NextLine
    \/ LookupByShipment
    \/ LookupByOrderNote
    \/ StockFind
    \/ StockUpdate
    \/ StampMarker

-----------------------------------------------------------------------------
(* Properties of the Shipment Stock Deductor *)

\* the (sku, qty) entries a run handles for shipment s
LinesOf(s) == Flatten(s.items, <<>>)

\* the shipments a run that meets no error gets to: those of the fetched
\* pages that come before the first payload that cannot be iterated
Handled(i) ==
    /\ i <= RECON_PAGE_SIZE * RECON_MAX_PAGES
    /\ \A j \in 1..i : ~dShipments[j].bad

\* movement rows tagged reference_type=shipment, reference_id=s.id
TaggedRows(s) ==
    {m \in DOMAIN movements :
        movements[m].reference_type = "shipment" /\ movements[m].reference_id = s.id}

\* order_shipment rows whose notes name the order number of s
NotedRows(s) ==
    IF s.order_number = Null THEN {}
    ELSE {m \in DOMAIN movements :
            /\ movements[m].reason = "order_shipment"
            /\ \E i \in 1..Len(movements[m].notes) :
                  movements[m].notes[i] = s.order_number}

\* the pair (s, ln) has a marker that was not stamped before the first run, a
\* SKU that resolves to a product, and a Batch/Production row of that product
\* whose available quantity covers the line
Eligible(s, ln) ==
    /\ ln.sku # <<>> /\ ln.qty > 0
    /\ TaggedRows(s) \cup NotedRows(s) # {}
    /\ \A m \in TaggedRows(s) \cup NotedRows(s) :
          \A i \in 1..Len(dMov0[m].notes) : dMov0[m].notes[i] # Sentinel
    /\ resolveSku(ln.sku, productMap, bundleMap).matchType = "product"
    /\ \E r \in DOMAIN dStock0 :
          /\ dStock0[r].item_type = "product"
          /\ dStock0[r].item_id = resolveSku(ln.sku, productMap, bundleMap).entity
          /\ dStock0[r].loc_type \in {"Batch", "Production"}
          /\ dStock0[r].available >= ln.qty

\* C1 (as claimed): after two runs over the same shipments with every store
\* call succeeding, every eligible (shipment, SKU) pair has been deducted
\* exactly once and its marker stamped exactly once
C1_ExactlyOncePerPair ==
    (dRuns >= 2 /\ dpc = "idle" /\ dErrs = 0) =>
        \A i \in 1..Len(dShipments) :
            \A k \in 1..Len(LinesOf(dShipments[i])) :
                LET s  == dShipments[i]
                    ln == LinesOf(s)[k]
                IN (Handled(i) /\ Eligible(s, ln)) =>
                      /\ Count(dDeduct, <<s.id, ln.sku>>) = 1
                      /\ Count(dStamp, <<s.id, ln.sku>>) = 1

\* C2: a shipment with line items for which neither marker lookup can return
\* a row has no stock or movement write issued on its behalf, in any run; and
\* a line whose lookups returned no row (no row, or an error) never reaches
\* the stock or marker write
C2_NoMarkerNoWrite ==
    /\ \A i \in 1..Len(dShipments) :
          (TaggedRows(dShipments[i]) \cup NotedRows(dShipments[i]) = {})
              => Count(dWrites, dShipments[i].id) = 0
    /\ dpc \in {"stockFind", "stockUpd", "stamp"} =>
          dMarker.id \in TaggedRows(Cur) \cup NotedRows(Cur)

\* C2 witness: two runs are complete, and a shipment with a line to reconcile
\* and no marker row had its marker lookup fail
C2_Witness ==
    /\ dRuns >= 2
    /\ \E i \in 1..Len(dShipments) :
          /\ TaggedRows(dShipments[i]) \cup NotedRows(dShipments[i]) = {}
          /\ \E k \in 1..Len(LinesOf(dShipments[i])) :
                /\ LinesOf(dShipments[i])[k].sku # <<>>
                /\ LinesOf(dShipments[i])[k].qty > 0
          /\ dErrAt = <<"lookup", dShipments[i].id>>
    /\ dDeduct # <<>>

\* C6 (as claimed): every stock-level row keeps on_hand >= 0
C6_OnHandNonNegative ==
    \A r \in DOMAIN stock : stock[r].on_hand >= 0

\* C7 (as claimed): no write to a stock-level row increases on_hand
C7_OnHandNeverIncreases ==
    [][\A r \in DOMAIN stock : stock'[r].on_hand <= stock[r].on_hand]_vars

-----------------------------------------------------------------------------
(* Multi-Source Shipment Merger: backfillShipmentsFromEvents.js *)

\* A column value of a shipment row is a text; <<>> is SQL NULL
NullV == <<>>
Txt(x) == IF x = Null THEN NullV ELSE <<x>>

\* the columns of a shipment row the model keeps, of the ~45 of the source
ShipFields == {"source", "order_id", "order_number", "tracking_number",
               "ship_date", "carrier_code", "shipment_cost", "status"}

\* of these, the columns the existing-shipment lookup selects
SelectedFields == {"id", "tracking_number", "order_number", "order_id",
                   "ship_date", "carrier_code", "source"}

\* toIsoOrNull: a date-only or ISO value gives the ISO form, anything else null
toIsoOrNull(v) ==
    CASE v = "d0" -> "d0T"
      [] v = "d1" -> "d1T"
      [] v = "d0T" -> "d0T"
      [] v = "d1T" -> "d1T"
      [] OTHER -> Null

Or(a, b) == IF a # Null THEN a ELSE b

makeShipmentRowFromShipStationEvent(evt, orderRow) ==
    [source |-> <<"shipstation">>,
     order_id |-> IF orderRow # <<>> /\ orderRow[1].order_id # Null
                  THEN Txt(orderRow[1].order_id)
                  ELSE Txt(evt.order_id),
     order_number |-> Txt(evt.order_number),
     tracking_number |-> evt.tracking_number,
     ship_date |-> Txt(Or(toIsoOrNull(evt.ship_date), toIsoOrNull(evt.create_date))),
     carrier_code |-> Txt(evt.carrier_code),
     shipment_cost |-> Txt(evt.shipment_cost),
     status |-> <<"active">>]

makeShipmentRowFromShipEngineEvent(evt, orderRow) ==
    [source |-> <<"shipengine">>,
     order_id |-> IF orderRow # <<>> /\ orderRow[1].order_id # Null
                  THEN Txt(orderRow[1].order_id)
                  ELSE NullV,
     order_number |-> Txt(evt.order_number),
     tracking_number |-> evt.tracking_number,
     ship_date |-> Txt(Or(toIsoOrNull(evt.ship_date), toIsoOrNull(evt.create_date))),
     carrier_code |-> Txt(evt.carrier_code),
     shipment_cost |-> Txt(evt.shipping_amount),
     status |-> <<"active">>]

\* every non-null field of candidate, whatever existing holds
OverwriteAll(existing, candidate) ==
    LET keys == {k \in DOMAIN candidate : candidate[k] # NullV}
    IN [k \in keys |-> candidate[k]]

\* the fields of candidate that are non-null where existing has null or
\* nothing: existing holds only the columns the lookup read
buildUpdateForMissingFields(existing, candidate) ==
    LET keys == {k \in DOMAIN candidate :
                    /\ candidate[k] # NullV
                    /\ (k \notin DOMAIN existing \/ existing[k] = NullV)}
    IN [k \in keys |-> candidate[k]]

\* the row of a list that buildOrderMaps keeps for a key: byComposite keeps
\* the last row of a key, byNumber the first
ByComposite(rows, on, sid) ==
    LET hits == {i \in 1..Len(rows) :
                    rows[i].order_number = on /\ rows[i].store_id = sid}
    IN IF hits = {} THEN <<>>
       ELSE <<rows[CHOOSE i \in hits : \A j \in hits : j <= i]>>

ByNumber(rows, on) ==
    LET hits == {i \in 1..Len(rows) : rows[i].order_number = on}
    IN IF hits = {} THEN <<>>
       ELSE <<rows[CHOOSE i \in hits : \A j \in hits : i <= j]>>

\* buildExistingShipmentMap: keyed by the stored tracking number, the last
\* row of a key wins
buildExistingShipmentMap(rows) ==
    LET idx == {i \in 1..Len(rows) : rows[i].tracking_number # NullV}
        K   == {rows[i].tracking_number : i \in idx}
        last(k) == CHOOSE i \in idx :
                      /\ rows[i].tracking_number = k
                      /\ \A j \in idx : rows[j].tracking_number = k => j <= i
    IN [k \in K |-> rows[last(k)]]

\* the columns of a stored row that the lookup selects
Project(row) == [k \in SelectedFields |-> row[k]]

RECURSIVE SelectSeq2(_, _)
SelectSeq2(rows, keep) ==
    IF rows = <<>> THEN <<>>
    ELSE IF Head(rows) \in keep THEN <<Head(rows)>> \o SelectSeq2(Tail(rows), keep)
    ELSE SelectSeq2(Tail(rows), keep)

\* Array.from(new Set(data.map(e => (e.tracking_number || '').trim()).filter(Boolean)))
Trackings(data) ==
    {Trim(data[i].tracking_number) : i \in 1..Len(data)} \ {<<>>}

OrderNumbers(data) ==
    {data[i].order_number : i \in 1..Len(data)} \ {Null}

\* rows of shipments .in('tracking_number', trackings), as selected
ExistingRows(trackings) ==
    LET keep == {i \in 1..Len(shipTbl) : shipTbl[i].tracking_number \in trackings}
    IN [j \in 1..Len(SelectSeq2([i \in 1..Len(shipTbl) |-> i], keep)) |->
          Project(shipTbl[SelectSeq2([i \in 1..Len(shipTbl) |-> i], keep)[j]])]

\* rows of orders .in('order_number', orderNumbers)
OrderRowsIn(orderNumbers) ==
    LET keep == {i \in 1..Len(orders) : orders[i].order_number \in orderNumbers}
    IN [j \in 1..Len(SelectSeq2([i \in 1..Len(orders) |-> i], keep)) |->
          orders[SelectSeq2([i \in 1..Len(orders) |-> i], keep)[j]]]

\* the order row of an event: ShipStation tries order_number|store_id first
OrderRowFor(evt, rows, src) ==
    IF src = "ss" /\ ByComposite(rows, evt.order_number, evt.store_id) # <<>>
    THEN ByComposite(rows, evt.order_number, evt.store_id)
    ELSE ByNumber(rows, evt.order_number)

Candidate(evt, rows, src) ==
    IF src = "ss"
    THEN makeShipmentRowFromShipStationEvent(evt, OrderRowFor(evt, rows, src))
    ELSE makeShipmentRowFromShipEngineEvent(evt, OrderRowFor(evt, rows, src))

\* the loop of lines 240-259 (319-335): the inserts and updates of a page
RECURSIVE Partition(_, _, _, _, _)
Partition(data, existingMap, rows, src, acc) ==
    IF data = <<>> THEN acc
    ELSE
    LET evt      == Head(data)
        tracking == Trim(evt.tracking_number)
        cand     == Candidate(evt, rows, src)
        rest     == Tail(data)
    IN IF tracking = <<>> THEN Partition(rest, existingMap, rows, src, acc)
       ELSE IF tracking \notin DOMAIN existingMap
       THEN Partition(rest, existingMap, rows, src,
                      [acc EXCEPT !.inserts = Append(@, cand)])
       ELSE LET update == buildUpdateForMissingFields(existingMap[tracking], cand)
            IN IF DOMAIN update = {}
               THEN Partition(rest, existingMap, rows, src, acc)
               ELSE Partition(rest, existingMap, rows, src,
                      [acc EXCEPT !.updates =
                          Append(@, [id |-> existingMap[tracking].id,
                                     update |-> update])])

\* a stored row of an inserted candidate or minimal insert: columns the
\* insert leaves out are NULL
NewRow(id, cand) ==
    [k \in ShipFields \cup {"id"} |->
        IF k = "id" THEN id ELSE IF k \in DOMAIN cand THEN cand[k] ELSE NullV]

RECURSIVE InsertAll(_, _)
InsertAll(tbl, cands) ==
    IF cands = <<>> THEN tbl
    ELSE InsertAll(Append(tbl, NewRow(Len(tbl) + 1, Head(cands))), Tail(cands))

\* a row after .update(update): the columns of the update take its values
Patch(row, update) ==
    [k \in DOMAIN row \cup DOMAIN update |->
        IF k \in DOMAIN update THEN update[k] ELSE row[k]]

\* .update(u.update).eq('id', u.id)
ApplyUpdate(tbl, u) ==
    [i \in 1..Len(tbl) |-> IF tbl[i].id = u.id THEN Patch(tbl[i], u.update)
                           ELSE tbl[i]]

\* the unbatched path of src/lib/supabase.js: findShipmentByTracking,
\* .eq('tracking_number', trackingNumber).limit(1).maybeSingle()
findShipmentByTracking(tbl, trackingNumber) ==
    LET hits == {i \in 1..Len(tbl) : tbl[i].tracking_number = trackingNumber}
    IN IF hits = {} THEN <<>>
       ELSE <<Project(tbl[CHOOSE i \in hits : \A j \in hits : i <= j])>>

\* findOrderByOrderNumber: .eq('order_number', orderNumber).limit(1)
findOrderByOrderNumber(orderNumber) ==
    IF orderNumber = Null THEN <<>> ELSE ByNumber(orders, orderNumber)

\* upsertShipmentFromShipStationEvent and upsertShipmentFromShipEngineEvent:
\* lookup, then insert or fill-missing update, for one event
upsertShipmentFromEvent(tbl, evt, src) ==
    LET tracking  == Trim(evt.tracking_number)
        existing  == findShipmentByTracking(tbl, tracking)
        orderRow  == findOrderByOrderNumber(evt.order_number)
        candidate == IF src = "ss"
                     THEN makeShipmentRowFromShipStationEvent(evt, orderRow)
                     ELSE makeShipmentRowFromShipEngineEvent(evt, orderRow)
    IN IF tracking = <<>> THEN tbl
       ELSE IF existing = <<>> THEN InsertAll(tbl, <<candidate>>)
       ELSE LET update == buildUpdateForMissingFields(existing[1], candidate)
            IN IF DOMAIN update = {} THEN tbl
               ELSE ApplyUpdate(tbl, [id |-> existing[1].id, update |-> update])

\* the loop of the unbatched processShipStationEvents over a page
RECURSIVE UnbatchedPage(_, _, _)
UnbatchedPage(tbl, data, src) ==
    IF data = <<>> THEN tbl
    ELSE UnbatchedPage(upsertShipmentFromEvent(tbl, Head(data), src), Tail(data), src)

\* the batched path over a page: the bulk insert, then the updates in order
RECURSIVE ApplyUpdates(_, _)
ApplyUpdates(tbl, updates) ==
    IF updates = <<>> THEN tbl
    ELSE ApplyUpdates(ApplyUpdate(tbl, Head(updates)), Tail(updates))

BatchedPage(tbl, inserts, updates) == ApplyUpdates(InsertAll(tbl, inserts), updates)

Feed(src) == IF src = "ss" THEN ssEvents ELSE seEvents

\* the page of .range(from, to) of a feed
FeedPage(src, page) ==
    LET from == page * PAGE_SIZE
        to   == from + PAGE_SIZE - 1
    IN SubSeq(Feed(src), from + 1,
              IF to + 1 < Len(Feed(src)) THEN to + 1 ELSE Len(Feed(src)))

MCanErr == mErrs < MaxErrs

MLocalsReset ==
    /\ mData' = <<>>
    /\ mExisting' = <<>>
    /\ mOrderRows' = <<>>
    /\ mInserts' = <<>>
    /\ mUpdates' = <<>>

\* end of processShipStationEvents: processShipEngineEvents follows; end of
\* processShipEngineEvents: the run is complete
MEndFeed ==
    /\ MLocalsReset
    /\ mPage' = 0
    /\ IF mSrc = "ss"
       THEN mSrc' = "se" /\ mpc' = "fetch"
       ELSE mSrc' = "ss" /\ mpc' = "idle"

\* runBackfillShipmentsFromEvents is started by its schedule
MBegin ==
    /\ mpc = "idle"
    /\ jobs < MaxJobs
    /\ jobs' = jobs + 1
    /\ mpc' = "fetch"
    /\ mSrc' = "ss"
    /\ mPage' = 0
    /\ UNCHANGED <<shipTbl, orders, ssEvents, seEvents, ledger, mData,
                   mExisting, mOrderRows, mInserts, mUpdates, mErrs, bvars>>
    /\ UNCHANGED notM

\* one job at a time
MStart ==
    /\ bpc = "idle"
    /\ dpc = "idle"
    /\ MBegin

\* lines 195-214 (276-295)
MFetch ==
    /\ mpc = "fetch"
    /\ \/ /\ mPage >= MAX_PAGES
          /\ MEndFeed
          /\ UNCHANGED mErrs
       \/ /\ mPage < MAX_PAGES
          /\ MCanErr
          /\ mErrs' = mErrs + 1
          /\ MEndFeed
       \/ /\ mPage < MAX_PAGES
          /\ FeedPage(mSrc, mPage) = <<>>
          /\ MEndFeed
          /\ UNCHANGED mErrs
       \/ /\ mPage < MAX_PAGES
          /\ FeedPage(mSrc, mPage) # <<>>
          /\ mData' = FeedPage(mSrc, mPage)
          /\ mpc' = "existing"
          /\ UNCHANGED <<mSrc, mPage, mExisting, mOrderRows, mInserts,
                         mUpdates, mErrs>>
    /\ UNCHANGED <<shipTbl, orders, ssEvents, seEvents, ledger, jobs, bvars>>
    /\ UNCHANGED notM

\* lines 217-225 (297-305): on an error existingRows is undefined and the map
\* is empty; without trackings no query is made
MExisting ==
    /\ mpc = "existing"
    /\ \/ /\ mExisting' = buildExistingShipmentMap(ExistingRows(Trackings(mData)))
          /\ UNCHANGED mErrs
       \/ /\ Trackings(mData) # {}
          /\ MCanErr
          /\ mErrs' = mErrs + 1
          /\ mExisting' = <<>>
    /\ mpc' = "orders"
    /\ UNCHANGED <<shipTbl, orders, ssEvents, seEvents, ledger, mSrc, mPage,
                   mData, mOrderRows, mInserts, mUpdates, jobs, bvars>>
    /\ UNCHANGED notM

\* lines 228-259 (307-335): the batch order lookup, then the partition of the
\* page into inserts and updates
MOrders ==
    /\ mpc = "orders"
    /\ \E rows \in {OrderRowsIn(OrderNumbers(mData))} \cup
                     (IF OrderNumbers(mData) # {} /\ MCanErr THEN {<<>>} ELSE {}) :
          /\ mOrderRows' = rows
          /\ mErrs' = IF rows = OrderRowsIn(OrderNumbers(mData))
                      THEN mErrs ELSE mErrs + 1
          /\ LET parts == Partition(mData, mExisting, rows, mSrc,
                                    [inserts |-> <<>>, updates |-> <<>>])
             IN /\ mInserts' = parts.inserts
                /\ mUpdates' = parts.updates
    /\ mpc' = "insert"
    /\ UNCHANGED <<shipTbl, orders, ssEvents, seEvents, ledger, mSrc, mPage,
                   mData, mExisting, jobs, bvars>>
    /\ UNCHANGED notM

\* a Merger that, with its insert, also writes the tracking number of each
\* candidate into the orders of its order number
MInsertFixingOrders ==
    /\ mpc = "insert"
    /\ shipTbl' = InsertAll(shipTbl, mInserts)
    /\ orders' = [i \in 1..Len(orders) |->
                    IF \E k \in 1..Len(mInserts) :
                          mInserts[k].order_number = Txt(orders[i].order_number)
                    THEN [orders[i] EXCEPT !.tracking_number =
                            mInserts[CHOOSE k \in 1..Len(mInserts) :
                               mInserts[k].order_number =
                                  Txt(orders[i].order_number)].tracking_number]
                    ELSE orders[i]]
    /\ mpc' = "update"
    /\ UNCHANGED <<ssEvents, seEvents, ledger, mSrc, mPage, mData, mExisting,
                   mOrderRows, mInserts, mUpdates, jobs, bvars, mErrs>>
    /\ UNCHANGED notM

\* lines 261-264 (337-340): one bulk insert of the page's candidates
MInsert ==
    /\ mpc = "insert"
    /\ \/ /\ shipTbl' = InsertAll(shipTbl, mInserts)
          /\ UNCHANGED mErrs
       \/ /\ mInserts # <<>>
          /\ MCanErr
          /\ mErrs' = mErrs + 1
          /\ UNCHANGED shipTbl
    /\ mpc' = "update"
    /\ UNCHANGED <<orders, ssEvents, seEvents, ledger, mSrc, mPage, mData,
                   mExisting, mOrderRows, mInserts, mUpdates, jobs, bvars>>
    /\ UNCHANGED notM

\* lines 265-270 (341-346): one update per entry, then the end of the page
MUpdate ==
    /\ mpc = "update"
    /\ \/ /\ mUpdates # <<>>
          /\ shipTbl' = ApplyUpdate(shipTbl, Head(mUpdates))
          /\ mUpdates' = Tail(mUpdates)
          /\ UNCHANGED <<mpc, mSrc, mPage, mData, mExisting, mOrderRows,
                         mInserts, mErrs>>
       \/ /\ mUpdates # <<>>
          /\ MCanErr
          /\ mErrs' = mErrs + 1
          /\ mUpdates' = Tail(mUpdates)
          /\ UNCHANGED <<shipTbl, mpc, mSrc, mPage, mData, mExisting,
                         mOrderRows, mInserts>>
       \/ /\ mUpdates = <<>>
          /\ Len(mData) < PAGE_SIZE
          /\ MEndFeed
          /\ UNCHANGED <<shipTbl, mErrs>>
       \/ /\ mUpdates = <<>>
          /\ Len(mData) >= PAGE_SIZE
          /\ mPage' = mPage + 1
          /\ mpc' = "fetch"
          /\ UNCHANGED <<shipTbl, mSrc, mData, mExisting, mOrderRows,
                         mInserts, mUpdates, mErrs>>
    /\ UNCHANGED <<orders, ssEvents, seEvents, ledger, jobs, bvars>>
    /\ UNCHANGED notM

NextM ==
    \/ MStart
    \/ MFetch
    \/ MExisting
    \/ MOrders
    \/ MInsert
    \/ MUpdate

-----------------------------------------------------------------------------
(* Order Tracking Backfiller: fixShippedOrdersMissingTracking.js *)

NoFound == [tracking |-> <<>>, shipDateIso |-> Null]

\* the most recent of the rows `hits` of a feed: .order(create_date,
\* descending).limit(1); <<>> when none
Latest(feed, hits) ==
    IF hits = {} THEN <<>>
    ELSE <<feed[CHOOSE i \in hits : \A j \in hits : j <= i]>>

\* lines 38-43: the result of one ShipStation clause, NoFound when the row
\* has no tracking number left after trim
FromShipStationRow(data) ==
    IF data = <<>> \/ Trim(data[1].tracking_number) = <<>> THEN NoFound
    ELSE [tracking |-> Trim(data[1].tracking_number),
          shipDateIso |-> Or(Or(toIsoOrNull(data[1].ship_date),
                                toIsoOrNull(data[1].create_date)),
                             toIsoOrNull(data[1].create_date))]

\* findFromShipStation: by order_id, then by order_number; `fail` names the
\* query that returns an error
findFromShipStation(o, fail) ==
    LET byId  == {i \in 1..Len(ssEvents) : ssEvents[i].order_id = o.order_id}
        byNum == {i \in 1..Len(ssEvents) :
                     ssEvents[i].order_number = o.order_number}
        r1 == IF o.order_id # Null /\ fail # "ssId"
              THEN FromShipStationRow(Latest(ssEvents, byId)) ELSE NoFound
        r2 == IF o.order_number # Null /\ fail # "ssNum"
              THEN FromShipStationRow(Latest(ssEvents, byNum)) ELSE NoFound
    IN IF r1 # NoFound THEN r1 ELSE r2

findFromShipEngine(o, fail) ==
    LET byNum == {i \in 1..Len(seEvents) :
                     seEvents[i].order_number = o.order_number}
        data == Latest(seEvents, byNum)
    IN IF o.order_number = Null \/ fail = "se" \/ data = <<>>
          \/ Trim(data[1].tracking_number) = <<>>
       THEN NoFound
       ELSE [tracking |-> Trim(data[1].tracking_number),
             shipDateIso |-> Or(toIsoOrNull(data[1].ship_date),
                                toIsoOrNull(data[1].create_date))]

\* extractShipDateFromLabelLedgerRow
extractShipDateFromLabelLedgerRow(row) ==
    IF row.payload = Null THEN Null
    ELSE Or(toIsoOrNull(row.payload), toIsoOrNull(row.created_at))

findFromLabelLedger(o, fail) ==
    LET byRef == {i \in 1..Len(ledger) : ledger[i].order_ref = o.order_number}
        data == Latest(ledger, byRef)
    IN IF o.order_number = Null \/ fail = "ll" \/ data = <<>>
          \/ Trim(data[1].tracking_number) = <<>>
       THEN NoFound
       ELSE [tracking |-> Trim(data[1].tracking_number),
             shipDateIso |-> Or(extractShipDateFromLabelLedgerRow(data[1]),
                                toIsoOrNull(data[1].created_at))]

\* a search that asks ShipEngine before ShipStation
FindTrackingShipEngineFirst(o, fail) ==
    IF findFromShipEngine(o, fail) # NoFound THEN findFromShipEngine(o, fail)
    ELSE IF findFromShipStation(o, fail) # NoFound THEN findFromShipStation(o, fail)
    ELSE findFromLabelLedger(o, fail)

\* lines 162-165: const found = ss || se || ll
FindTracking(o, fail) ==
    LET ss == findFromShipStation(o, fail)
        se == IF ss # NoFound THEN NoFound ELSE findFromShipEngine(o, fail)
        ll == IF ss # NoFound \/ se # NoFound THEN NoFound
              ELSE findFromLabelLedger(o, fail)
    IN IF ss # NoFound THEN ss ELSE IF se # NoFound THEN se ELSE ll

\* whether the query named q is issued for order o
Issued(o, q) ==
    LET byId == {i \in 1..Len(ssEvents) : ssEvents[i].order_id = o.order_id}
        r1 == IF o.order_id # Null
              THEN FromShipStationRow(Latest(ssEvents, byId)) ELSE NoFound
    IN CASE q = "ssId"  -> o.order_id # Null
         [] q = "ssNum" -> o.order_number # Null /\ r1 = NoFound
         [] q = "se"    -> o.order_number # Null
                           /\ findFromShipStation(o, "none") = NoFound
         [] q = "ll"    -> o.order_number # Null
                           /\ findFromShipStation(o, "none") = NoFound
                           /\ findFromShipEngine(o, "none") = NoFound

\* the queries issued for order o when the query `fail` returns an error:
\* each find function returns before its query without its key (lines 23-24,
\* 49, 84), and lines 162-164 call a source only when none before it found
Queried(o, fail) ==
    LET byId == {i \in 1..Len(ssEvents) : ssEvents[i].order_id = o.order_id}
        r1 == IF o.order_id # Null /\ fail # "ssId"
              THEN FromShipStationRow(Latest(ssEvents, byId)) ELSE NoFound
        ss == findFromShipStation(o, fail)
        se == findFromShipEngine(o, fail)
    IN (IF o.order_id # Null THEN {"ssId"} ELSE {})
       \cup (IF o.order_number # Null /\ r1 = NoFound THEN {"ssNum"} ELSE {})
       \cup (IF o.order_number # Null /\ ss = NoFound THEN {"se"} ELSE {})
       \cup (IF o.order_number # Null /\ ss = NoFound /\ se = NoFound
             THEN {"ll"} ELSE {})

\* orders .ilike(order_status, 'shipped').is(tracking_number, null)
\* .is(actual_ship_date, null), in the order of the query
MissingTracking ==
    SelectSeq(orders, LAMBDA o : /\ o.order_status \in {"shipped", "Shipped"}
                                 /\ o.tracking_number = NullV
                                 /\ o.actual_ship_date = Null)

FixPage(page) ==
    LET from == page * FIX_PAGE_SIZE
        to   == from + FIX_PAGE_SIZE - 1
        all  == MissingTracking
    IN SubSeq(all, from + 1, IF to + 1 < Len(all) THEN to + 1 ELSE Len(all))

BFinish ==
    /\ bpc' = "idle"
    /\ bPage' = 0
    /\ bRows' = <<>>
    /\ bIdx' = 0
    /\ bFound' = NoFound

\* end of the body of the loop over the orders of a page, and lines 191-192
BNextOrder ==
    /\ bFound' = NoFound
    /\ IF bIdx < Len(bRows)
       THEN /\ bIdx' = bIdx + 1
            /\ bpc' = "find"
            /\ UNCHANGED <<bPage, bRows>>
       ELSE IF Len(bRows) < FIX_PAGE_SIZE
       THEN /\ bpc' = "idle"
            /\ bPage' = 0
            /\ bRows' = <<>>
            /\ bIdx' = 0
       ELSE /\ bpc' = "fetch"
            /\ bPage' = bPage + 1
            /\ bRows' = <<>>
            /\ bIdx' = 0

\* runFixShippedOrdersMissingTracking is started by its schedule, again and
\* again: the count of the job runs stops at MaxJobs, the runs do not
BBegin ==
    /\ bpc = "idle"
    /\ jobs' = IF jobs < MaxJobs THEN jobs + 1 ELSE jobs
    /\ bpc' = "fetch"
    /\ bPage' = 0
    /\ UNCHANGED <<shipTbl, orders, ssEvents, seEvents, ledger, mlocals,
                   bRows, bIdx, bFound, mErrs>>
    /\ bQueried' = {}
    /\ UNCHANGED notM

\* one job at a time
BStart ==
    /\ mpc = "idle"
    /\ dpc = "idle"
    /\ BBegin

\* lines 142-158
BFetch ==
    /\ bpc = "fetch"
    /\ \/ /\ bPage >= FIX_MAX_PAGES
          /\ BFinish
          /\ UNCHANGED mErrs
       \/ /\ bPage < FIX_MAX_PAGES
          /\ MCanErr
          /\ mErrs' = mErrs + 1
          /\ BFinish
       \/ /\ bPage < FIX_MAX_PAGES
          /\ FixPage(bPage) = <<>>
          /\ BFinish
          /\ UNCHANGED mErrs
       \/ /\ bPage < FIX_MAX_PAGES
          /\ FixPage(bPage) # <<>>
          /\ bRows' = FixPage(bPage)
          /\ bIdx' = 1
          /\ bpc' = "find"
          /\ UNCHANGED <<bPage, bFound, mErrs>>
    /\ UNCHANGED <<shipTbl, orders, ssEvents, seEvents, ledger, mlocals, jobs>>
    /\ UNCHANGED bQueried
    /\ UNCHANGED notM

\* lines 162-172: the three sources in order; at most one query of the order
\* returns an error
BFind ==
    /\ bpc = "find"
    /\ \E fail \in {"none", "ssId", "ssNum", "se", "ll"} :
          /\ fail # "none" => MCanErr /\ Issued(bRows[bIdx], fail)
          /\ mErrs' = IF fail = "none" THEN mErrs ELSE mErrs + 1
          /\ bQueried' = Queried(bRows[bIdx], fail)
          /\ LET found == FindTracking(bRows[bIdx], fail)
             IN IF found = NoFound
                THEN BNextOrder
                ELSE /\ bFound' = found
                     /\ bpc' = "updOrder"
                     /\ UNCHANGED <<bPage, bRows, bIdx>>
    /\ UNCHANGED <<shipTbl, orders, ssEvents, seEvents, ledger, mlocals, jobs>>
    /\ UNCHANGED notM

\* .update(update).eq('order_id', o.order_id)
UpdateOrder(tbl, oid, found) ==
    [i \in 1..Len(tbl) |->
        IF tbl[i].order_id = oid /\ oid # Null
        THEN [tbl[i] EXCEPT !.tracking_number = found.tracking,
                            !.actual_ship_date =
                                IF found.shipDateIso # Null
                                THEN found.shipDateIso ELSE @]
        ELSE tbl[i]]

\* lines 174-182
BUpdateOrder ==
    /\ bpc = "updOrder"
    /\ \/ /\ MCanErr
          /\ mErrs' = mErrs + 1
          /\ BNextOrder
          /\ UNCHANGED orders
       \/ /\ orders' = UpdateOrder(orders, bRows[bIdx].order_id, bFound)
          /\ bpc' = "ensureLookup"
          /\ UNCHANGED <<bPage, bRows, bIdx, bFound, mErrs>>
    /\ UNCHANGED <<shipTbl, ssEvents, seEvents, ledger, mlocals, jobs>>
    /\ UNCHANGED bQueried
    /\ UNCHANGED notM

\* ensureShipmentExists, lines 105-116
BEnsureLookup ==
    /\ bpc = "ensureLookup"
    /\ \/ /\ MCanErr
          /\ mErrs' = mErrs + 1
          /\ BNextOrder
       \/ /\ \E i \in 1..Len(shipTbl) : shipTbl[i].tracking_number = bFound.tracking
          /\ BNextOrder
          /\ UNCHANGED mErrs
       \/ /\ \A i \in 1..Len(shipTbl) : shipTbl[i].tracking_number # bFound.tracking
          /\ bpc' = "ensureInsert"
          /\ UNCHANGED <<bPage, bRows, bIdx, bFound, mErrs>>
    /\ UNCHANGED <<shipTbl, orders, ssEvents, seEvents, ledger, mlocals, jobs>>
    /\ UNCHANGED bQueried
    /\ UNCHANGED notM

\* the minimal row of lines 125-131; orderRow is <<>> when the lookup of the
\* order gave nothing
MinimalShipment(orderNumber, orderRow, tracking) ==
    [source |-> <<"orders_fix_cron">>,
     order_number |-> Txt(orderNumber),
     order_id |-> IF orderRow # <<>> /\ orderRow[1].order_id # Null
                  THEN Txt(orderRow[1].order_id) ELSE NullV,
     tracking_number |-> tracking,
     status |-> <<"active">>]

\* ensureShipmentExists, lines 119-133: the order lookup (its error is not
\* read) and the insert
BEnsureInsert ==
    /\ bpc = "ensureInsert"
    /\ LET o == bRows[bIdx]
           hits == {i \in 1..Len(orders) :
                       /\ o.order_number # Null
                       /\ orders[i].order_number = o.order_number}
           rows == IF hits = {} THEN {<<>>} ELSE {<<orders[i]>> : i \in hits}
       IN \/ \E orderRow \in rows :
               /\ shipTbl' = InsertAll(shipTbl,
                     <<MinimalShipment(o.order_number, orderRow, bFound.tracking)>>)
               /\ UNCHANGED mErrs
          \/ /\ MCanErr
             /\ mErrs' = mErrs + 1
             /\ UNCHANGED shipTbl
    /\ BNextOrder
    /\ UNCHANGED <<orders, ssEvents, seEvents, ledger, mlocals, jobs>>
    /\ UNCHANGED bQueried
    /\ UNCHANGED notM

NextB ==
    \/ BStart
    \/ BFetch
    \/ BFind
    \/ BUpdateOrder
    \/ BEnsureLookup
    \/ BEnsureInsert

-----------------------------------------------------------------------------
(* Alert Manager: steps 1-5 of runOnce *)

\* client_inventory(id, sku, client_id)
ClientInventory == << [id |-> 1, sku |-> <<"A">>, client_id |-> "c1"],
                      [id |-> 2, sku |-> <<"b", " ">>, client_id |-> "c2"],
                      [id |-> 4, sku |-> <<"z">>, client_id |-> "c1"] >>

\* new Map(rows.map(r => [String(r.id), ...])): the last row of an id wins
LastOfId(id) ==
    LET hits == {i \in 1..Len(ClientInventory) : ClientInventory[i].id = id}
    IN IF hits = {} THEN 0 ELSE CHOOSE i \in hits : \A j \in hits : j <= i

idToSku(id) ==
    IF LastOfId(id) = 0 THEN <<>>
    ELSE normalizeSku(ClientInventory[LastOfId(id)].sku)

idToClientId(id) ==
    IF LastOfId(id) = 0 THEN Null ELSE ClientInventory[LastOfId(id)].client_id

\* a demand map that keeps the quantity of the last line of each base SKU
\* instead of the sum
RECURSIVE DemandLastLine(_, _)
DemandLastLine(items, acc) ==
    IF items = <<>> THEN acc
    ELSE LET it == Head(items)
             base == normalizeSku(resolveSku(it.sku, productMap, bundleMap).baseSku)
             rest == SelectSeq(acc, LAMBDA e : e.sku # base)
         IN IF base = <<>> THEN DemandLastLine(Tail(items), acc)
            ELSE DemandLastLine(Tail(items),
                                Append(rest, [sku |-> base, qty |-> it.quantity]))

\* lines 65-71: queued demand per base SKU, a Map in order of first insertion
RECURSIVE Demand(_, _)
Demand(items, acc) ==
    IF items = <<>> THEN acc
    ELSE LET it == Head(items)
             resolved == resolveSku(it.sku, productMap, bundleMap)
             base == normalizeSku(resolved.baseSku)
         IN IF base = <<>> THEN Demand(Tail(items), acc)
            ELSE Demand(Tail(items), AddQty(acc, base, it.quantity))

\* lines 91-96: the stock-level rows outside BackStock and Production
RECURSIVE SelectRows(_, _)
SelectRows(rows, types) ==
    IF rows = <<>> THEN <<>>
    ELSE IF Head(rows).type \in types
         THEN <<Head(rows)>> \o SelectRows(Tail(rows), types)
         ELSE SelectRows(Tail(rows), types)

LocationTypes == {"Pick", "BackStock", "Production"}

PickableRows == SelectRows(aStock, LocationTypes \ {"BackStock", "Production"})

\* lines 101-109: available summed per SKU; the client is that of the first
\* row of the SKU
RECURSIVE Pickable(_, _)
Pickable(rows, acc) ==
    IF rows = <<>> THEN acc
    ELSE LET r == Head(rows)
             sku == idToSku(r.item_id)
             prev == IF sku \in DOMAIN acc THEN acc[sku]
                     ELSE [available |-> 0, client_id |-> idToClientId(r.item_id)]
         IN IF sku = <<>> THEN Pickable(Tail(rows), acc)
            ELSE Pickable(Tail(rows),
                          [k \in DOMAIN acc \cup {sku} |->
                              IF k = sku
                              THEN [prev EXCEPT !.available = @ + r.available]
                              ELSE acc[k]])

\* lines 122-131: on_hand summed per SKU, over all rows (totalBySku) or over
\* the BackStock rows (backstockBySku)
RECURSIVE SumOnHand(_, _)
SumOnHand(rows, acc) ==
    IF rows = <<>> THEN acc
    ELSE LET r == Head(rows)
             sku == idToSku(r.item_id)
             prev == IF sku \in DOMAIN acc THEN acc[sku] ELSE 0
         IN IF sku = <<>> THEN SumOnHand(Tail(rows), acc)
            ELSE SumOnHand(Tail(rows),
                           [k \in DOMAIN acc \cup {sku} |->
                               IF k = sku THEN prev + r.on_hand ELSE acc[k]])

totalBySku == SumOnHand(aStock, <<>>)
backstockBySku == SumOnHand(SelectRows(aStock, {"BackStock"}), <<>>)

\* map.get(sku) || fallback
GetOr(map, sku, fallback) == IF sku \in DOMAIN map THEN map[sku] ELSE fallback

NoPick == [available |-> 0, client_id |-> Null]

\* the rule of lines 139-142 and 157 with priority to the restock alert
DeriveRestockFirst(qtyNeeded, available, back, total) ==
    LET needsRestock == qtyNeeded > available /\ back > 0
        needsPurchase == qtyNeeded > total
    IN [alertType |-> IF needsRestock THEN "restock"
                      ELSE IF needsPurchase THEN "purchase" ELSE Null,
        severity |-> IF needsRestock THEN "medium" ELSE "high"]

\* lines 139-142 and 157: the alert of a SKU and its severity
Derive(qtyNeeded, available, back, total) ==
    LET needsRestock == qtyNeeded > available /\ back > 0
        needsPurchase == qtyNeeded > total
    IN [alertType |-> IF needsPurchase THEN "purchase"
                      ELSE IF needsRestock THEN "restock" ELSE Null,
        severity |-> IF needsPurchase THEN "high" ELSE "medium"]

\* lines 160-169
Payload(sku, d, client_id) ==
    [item_type |-> "client_product", alert_type |-> d.alertType,
     message |-> sku, severity |-> d.severity, is_active |-> TRUE,
     client_id |-> client_id]

NoPayload == Payload(<<>>, [alertType |-> Null, severity |-> Null], Null)

\* .eq(column, v): with v null the store matches the null columns or nothing
EqF(col, v) == IF v = Null THEN aNullEq /\ col = Null ELSE col = v

\* lines 145-151: the rows the clear deactivates
ClearMatches(sku, client_id) ==
    {i \in 1..Len(aAlerts) :
        /\ aAlerts[i].item_type = "client_product"
        /\ aAlerts[i].message = sku
        /\ EqF(aAlerts[i].client_id, client_id)
        /\ aAlerts[i].is_active}

\* the rows in conflict with a payload on (client_id, item_type, alert_type,
\* message); two nulls conflict when the store takes them for equal
Conflicts(p) ==
    {i \in 1..Len(aAlerts) :
        /\ EqF(aAlerts[i].client_id, p.client_id)
        /\ aAlerts[i].item_type = p.item_type
        /\ aAlerts[i].alert_type = p.alert_type
        /\ aAlerts[i].message = p.message}

\* lines 180-187: the active rows of the logical key
FallbackMatches(p) == {i \in Conflicts(p) : aAlerts[i].is_active}

AlertRow(id, p) ==
    [id |-> id, item_type |-> p.item_type, alert_type |-> p.alert_type,
     message |-> p.message, severity |-> p.severity,
     is_active |-> p.is_active, client_id |-> p.client_id]

\* lines 172-174: insert, or on conflict write the payload over the row
Upsert(p) ==
    IF Conflicts(p) = {} THEN Append(aAlerts, AlertRow(Len(aAlerts) + 1, p))
    ELSE [i \in 1..Len(aAlerts) |->
             IF i \in Conflicts(p) THEN AlertRow(aAlerts[i].id, p) ELSE aAlerts[i]]

ACanErr == aErrs < MaxErrs

ALocalsReset ==
    /\ aDemand' = <<>>
    /\ aPickable' = <<>>
    /\ aBack' = <<>>
    /\ aTotal' = <<>>
    /\ aIdx' = 0
    /\ aPayload' = NoPayload
    /\ aExisting' = 0

\* the run ends: by a return, or after the last SKU of the demand map
AFinish(failed) ==
    /\ apc' = "idle"
    /\ aFresh' = ~(aRunErr \/ failed)
    /\ aRunErr' = FALSE
    /\ ALocalsReset

\* the loop of line 134 goes on to the next SKU
ANextSku(failed) ==
    IF aIdx < Len(aDemand)
    THEN /\ aIdx' = aIdx + 1
         /\ apc' = "alert"
         /\ aRunErr' = (aRunErr \/ failed)
         /\ aPayload' = NoPayload
         /\ aExisting' = 0
         /\ UNCHANGED <<aDemand, aPickable, aBack, aTotal, aFresh>>
    ELSE AFinish(failed)

\* the scheduler starts a run
AStart ==
    /\ apc = "idle"
    /\ aRuns < MaxAlertRuns
    /\ aRuns' = aRuns + 1
    /\ apc' = "orders"
    /\ aRunErr' = FALSE
    /\ UNCHANGED <<aItems, aStock, aAlerts, aHasIndex, aNullEq, aDemand,
                   aPickable, aBack, aTotal, aIdx, aPayload, aExisting, aErrs,
                   aLast, aFresh>>
    /\ UNCHANGED notA

\* lines 51-76: the awaiting order lines, the catalog, the demand map; the run
\* returns on an error and on an empty demand map
AFetchOrders ==
    /\ apc = "orders"
    /\ \/ /\ ACanErr
          /\ aErrs' = aErrs + 1
          /\ AFinish(TRUE)
       \/ /\ Demand(aItems, <<>>) = <<>>
          /\ AFinish(FALSE)
          /\ UNCHANGED aErrs
       \/ /\ Demand(aItems, <<>>) # <<>>
          /\ aDemand' = Demand(aItems, <<>>)
          /\ apc' = "ci"
          /\ UNCHANGED <<aPickable, aBack, aTotal, aIdx, aPayload, aExisting,
                         aErrs, aRunErr, aFresh>>
    /\ UNCHANGED <<aItems, aStock, aAlerts, aHasIndex, aNullEq, aRuns, aLast>>
    /\ UNCHANGED notA

\* lines 79-88
AFetchClientInventory ==
    /\ apc = "ci"
    /\ \/ /\ ACanErr
          /\ aErrs' = aErrs + 1
          /\ AFinish(TRUE)
       \/ /\ apc' = "pickable"
          /\ UNCHANGED <<aDemand, aPickable, aBack, aTotal, aIdx, aPayload,
                         aExisting, aErrs, aRunErr, aFresh>>
    /\ UNCHANGED <<aItems, aStock, aAlerts, aHasIndex, aNullEq, aRuns, aLast>>
    /\ UNCHANGED notA

\* lines 91-109
AFetchPickable ==
    /\ apc = "pickable"
    /\ \/ /\ ACanErr
          /\ aErrs' = aErrs + 1
          /\ AFinish(TRUE)
       \/ /\ aPickable' = Pickable(PickableRows, <<>>)
          /\ apc' = "stock"
          /\ UNCHANGED <<aDemand, aBack, aTotal, aIdx, aPayload, aExisting,
                         aErrs, aRunErr, aFresh>>
    /\ UNCHANGED <<aItems, aStock, aAlerts, aHasIndex, aNullEq, aRuns, aLast>>
    /\ UNCHANGED notA

\* lines 112-131
AFetchStock ==
    /\ apc = "stock"
    /\ \/ /\ ACanErr
          /\ aErrs' = aErrs + 1
          /\ AFinish(TRUE)
       \/ /\ aTotal' = totalBySku
          /\ aBack' = backstockBySku
          /\ aIdx' = 1
          /\ apc' = "alert"
          /\ UNCHANGED <<aDemand, aPickable, aPayload, aExisting, aErrs,
                         aRunErr, aFresh>>
    /\ UNCHANGED <<aItems, aStock, aAlerts, aHasIndex, aNullEq, aRuns, aLast>>
    /\ UNCHANGED notA

\* lines 134-174: the alert of the next SKU of the demand map, then the clear
\* (whose error nobody reads) or the native upsert
AAlertBody ==
    /\ apc = "alert"
    /\ LET sku == aDemand[aIdx].sku
           qtyNeeded == aDemand[aIdx].qty
           pick == GetOr(aPickable, sku, NoPick)
           back == GetOr(aBack, sku, 0)
           total == GetOr(aTotal, sku, 0)
           d == Derive(qtyNeeded, pick.available, back, total)
           payload == Payload(sku, d, pick.client_id)
       IN /\ aLast' = [sku |-> sku, qtyNeeded |-> qtyNeeded,
                       available |-> pick.available, back |-> back,
                       total |-> total, alertType |-> d.alertType,
                       severity |-> d.severity]
          /\ IF d.alertType = Null
             THEN \/ /\ aAlerts' = [i \in 1..Len(aAlerts) |->
                                       IF i \in ClearMatches(sku, pick.client_id)
                                       THEN [aAlerts[i] EXCEPT !.is_active = FALSE]
                                       ELSE aAlerts[i]]
                     /\ ANextSku(FALSE)
                     /\ UNCHANGED aErrs
                  \/ /\ ACanErr
                     /\ aErrs' = aErrs + 1
                     /\ ANextSku(TRUE)
                     /\ UNCHANGED aAlerts
             ELSE \/ /\ aHasIndex
                     /\ aAlerts' = Upsert(payload)
                     /\ ANextSku(FALSE)
                     /\ UNCHANGED aErrs
                  \/ /\ ~aHasIndex \/ ACanErr
                     /\ aErrs' = IF aHasIndex THEN aErrs + 1 ELSE aErrs
                     /\ aPayload' = payload
                     /\ apc' = "fbSelect"
                     /\ UNCHANGED <<aAlerts, aDemand, aPickable, aBack, aTotal,
                                    aIdx, aExisting, aRunErr, aFresh>>
    /\ UNCHANGED <<aItems, aStock, aHasIndex, aNullEq, aRuns>>

AAlert ==
    /\ AAlertBody
    /\ UNCHANGED notA

\* lines 178-191: the select of the fallback; maybeSingle gives an error when
\* several rows match
AFallbackSelectBody ==
    /\ apc = "fbSelect"
    /\ \/ /\ ACanErr \/ Cardinality(FallbackMatches(aPayload)) > 1
          /\ aErrs' = IF Cardinality(FallbackMatches(aPayload)) > 1
                      THEN aErrs ELSE aErrs + 1
          /\ ANextSku(TRUE)
       \/ /\ Cardinality(FallbackMatches(aPayload)) = 1
          /\ aExisting' = aAlerts[CHOOSE i \in FallbackMatches(aPayload) : TRUE].id
          /\ apc' = "fbUpdate"
          /\ UNCHANGED <<aDemand, aPickable, aBack, aTotal, aIdx, aPayload,
                         aErrs, aRunErr, aFresh>>
       \/ /\ FallbackMatches(aPayload) = {}
          /\ apc' = "fbInsert"
          /\ UNCHANGED <<aDemand, aPickable, aBack, aTotal, aIdx, aPayload,
                         aExisting, aErrs, aRunErr, aFresh>>
    /\ UNCHANGED <<aItems, aStock, aAlerts, aHasIndex, aNullEq, aRuns, aLast>>

AFallbackSelect ==
    /\ AFallbackSelectBody
    /\ UNCHANGED notA

\* lines 192-197
AFallbackUpdateBody ==
    /\ apc = "fbUpdate"
    /\ \/ /\ aAlerts' = [i \in 1..Len(aAlerts) |->
                            IF aAlerts[i].id = aExisting
                            THEN [aAlerts[i] EXCEPT !.severity = aPayload.severity]
                            ELSE aAlerts[i]]
          /\ ANextSku(FALSE)
          /\ UNCHANGED aErrs
       \/ /\ ACanErr
          /\ aErrs' = aErrs + 1
          /\ ANextSku(TRUE)
          /\ UNCHANGED aAlerts
    /\ UNCHANGED <<aItems, aStock, aHasIndex, aNullEq, aRuns, aLast>>

AFallbackUpdate ==
    /\ AFallbackUpdateBody
    /\ UNCHANGED notA

\* lines 198-203: the insert of the fallback, which a unique index of the
\* store rejects when the key is taken
AFallbackInsertBody ==
    /\ apc = "fbInsert"
    /\ \/ /\ ~(aHasIndex /\ Conflicts(aPayload) # {})
          /\ aAlerts' = Append(aAlerts, AlertRow(Len(aAlerts) + 1, aPayload))
          /\ ANextSku(FALSE)
          /\ UNCHANGED aErrs
       \/ /\ (aHasIndex /\ Conflicts(aPayload) # {}) \/ ACanErr
          /\ aErrs' = IF aHasIndex /\ Conflicts(aPayload) # {}
                      THEN aErrs ELSE aErrs + 1
          /\ ANextSku(TRUE)
          /\ UNCHANGED aAlerts
    /\ UNCHANGED <<aItems, aStock, aHasIndex, aNullEq, aRuns, aLast>>

AFallbackInsert ==
    /\ AFallbackInsertBody
    /\ UNCHANGED notA

\* between two runs an awaiting order ships: its line leaves the query of
\* lines 51-54
OrderShips ==
    /\ apc = "idle"
    /\ aItems # <<>>
    /\ aItems' = Tail(aItems)
    /\ aFresh' = FALSE
    /\ UNCHANGED <<aStock, aAlerts, aHasIndex, aNullEq, apc, aDemand,
                   aPickable, aBack, aTotal, aIdx, aPayload, aExisting, aRuns,
                   aErrs, aRunErr, aLast>>
    /\ UNCHANGED notA

\* between two runs stock is received at a location: the rows the queries of
\* lines 91-96 and 112-115 read
StockReceived ==
    /\ apc = "idle"
    /\ \E i \in 1..Len(aStock) :
          /\ aStock[i].on_hand + 2 <= MaxOnHand
          /\ aStock' = [aStock EXCEPT ![i].on_hand = @ + 2,
                                      ![i].available = @ + 2]
    /\ aFresh' = FALSE
    /\ UNCHANGED <<aItems, aAlerts, aHasIndex, aNullEq, apc, aDemand,
                   aPickable, aBack, aTotal, aIdx, aPayload, aExisting, aRuns,
                   aErrs, aRunErr, aLast>>
    /\ UNCHANGED notA

NextA ==
    \/ AStart
    \/ AFetchOrders
    \/ AFetchClientInventory
    \/ AFetchPickable
    \/ AFetchStock
    \/ AAlert
    \/ AFallbackSelect
    \/ AFallbackUpdate
    \/ AFallbackInsert
    \/ OrderShips
    \/ StockReceived

\* the awaiting order lines: up to MaxItems lines
ItemPool ==
    { [sku |-> <<"a">>, quantity |-> 1],
      [sku |-> <<"A", " ">>, quantity |-> 2],
      [sku |-> <<"B">>, quantity |-> 1],
      [sku |-> <<>>, quantity |-> 1] }

ItemLists == UNION {[1..n -> ItemPool] : n \in 0..MaxItems}

\* the stock-level rows of the client products, each with the type of its
\* location: up to MaxStockRows rows
StockPool ==
    { [item_id |-> 1, type |-> "Pick", on_hand |-> 1, available |-> 1],
      [item_id |-> 1, type |-> "Pick", on_hand |-> 2, available |-> 0],
      [item_id |-> 1, type |-> "BackStock", on_hand |-> 2, available |-> 2],
      [item_id |-> 1, type |-> "Production", on_hand |-> 1, available |-> 1],
      [item_id |-> 2, type |-> "BackStock", on_hand |-> 1, available |-> 1],
      [item_id |-> 3, type |-> "Pick", on_hand |-> 1, available |-> 1] }

StockLists == UNION {[1..n -> StockPool] : n \in 0..MaxStockRows}

NoLast == [sku |-> <<>>, qtyNeeded |-> 0, available |-> 0, back |-> 0,
           total |-> 0, alertType |-> Null, severity |-> Null]

IdleA ==
    /\ aItems = <<>>
    /\ aStock = <<>>
    /\ aAlerts = <<>>
    /\ aHasIndex = FALSE
    /\ aNullEq = FALSE
    /\ apc = "idle"
    /\ aDemand = <<>>
    /\ aPickable = <<>>
    /\ aBack = <<>>
    /\ aTotal = <<>>
    /\ aIdx = 0
    /\ aPayload = NoPayload
    /\ aExisting = 0
    /\ aRuns = 0
    /\ aErrs = 0
    /\ aRunErr = FALSE
    /\ aFresh = FALSE
    /\ aLast = NoLast

-----------------------------------------------------------------------------
(* Fill-missing merge on its own: buildUpdateForMissingFields applied to
   records of up to MaxFields fields *)

MergeFieldNames == <<"carrier_code", "ship_date", "order_id">>

MergeFields == {MergeFieldNames[i] : i \in 1..MaxFields}

MergeValues == {NullV, <<"FedEx">>, <<"UPS">>}

\* a record may lack a field: an absent key reads undefined
MergeRecords == UNION {[D -> MergeValues] : D \in SUBSET MergeFields \ {{}}}

\* lines 265-266: the update is built and written to the existing row
FBuild ==
    /\ fpc = "given"
    /\ fUpdate' = buildUpdateForMissingFields(fExisting, fCandidate)
    /\ fMerged' = Patch(fExisting, fUpdate')
    /\ fpc' = "merged"
    /\ UNCHANGED <<fExisting, fCandidate>>
    /\ UNCHANGED notF

NextF ==
    \/ FBuild

IdleF ==
    /\ fExisting = <<>>
    /\ fCandidate = <<>>
    /\ fUpdate = <<>>
    /\ fMerged = <<>>
    /\ fpc = "idle"

-----------------------------------------------------------------------------
(* SKU resolver on its own: resolveSku applied to raw SKUs of up to MaxSkuLen
   characters over maps built from catalogs of up to MaxCatalog rows *)

SkuChars == {"a", "B", "-", "_", ".", " "}

RawSkus == UNION {[1..n -> SkuChars] : n \in 0..MaxSkuLen}

\* names of catalog rows: 'a', 'ab', 'B', 'a-'
CatalogNames == {<<"a">>, <<"a", "b">>, <<"B">>, <<"a", "-">>}

\* products(id, Sku): the id of a row tells its place and its name
ProductCatalogs ==
    UNION {{[i \in 1..n |-> [id |-> <<"p", i, f[i]>>, Sku |-> f[i]]] :
              f \in [1..n -> CatalogNames]} : n \in 0..MaxCatalog}

\* bundle(id, name)
BundleCatalogs ==
    UNION {{[i \in 1..n |-> [id |-> <<"k", i, f[i]>>, name |-> f[i]]] :
              f \in [1..n -> CatalogNames]} : n \in 0..MaxCatalog}

\* buildSkuMaps(products, bundles)
ProductMapOf(products) == MapOf(products, [i \in 1..Len(products) |-> products[i].Sku])

BundleMapOf(bundles) == MapOf(bundles, [i \in 1..Len(bundles) |-> bundles[i].name])

NoResult == [baseSku |-> <<>>, matchType |-> "none", entity |-> Null]

\* resolveSku(rawSku, productMap, bundleMap) is called
RResolve ==
    /\ rpc = "given"
    /\ rResult' = resolveSku(rRaw, ProductMapOf(rProducts), BundleMapOf(rBundles))
    /\ rpc' = "resolved"
    /\ UNCHANGED <<rRaw, rProducts, rBundles>>
    /\ UNCHANGED notR

NextR ==
    \/ RResolve

IdleR ==
    /\ rRaw = <<>>
    /\ rProducts = <<>>
    /\ rBundles = <<>>
    /\ rResult = NoResult
    /\ rpc = "idle"

\* the locals of a run that has not started
IdleRun == [pc |-> "idle", page |-> 0, rows |-> <<>>, idx |-> 0,
            lines |-> <<>>, marker |-> NoMarker, stock |-> NoStock]

IdleX == dOther = IdleRun

-----------------------------------------------------------------------------
(* Line-item flattening on its own: lines 230-244 of runOnce *)

\* a line item of a payload; a text member that is missing, null or empty is
\* <<>>, a quantity member that is missing or null is <<>> and <<n>> otherwise
RawItem(sku, SKU, productSku, quantity, Quantity, qty) ==
    [sku |-> sku, SKU |-> SKU, product_sku |-> productSku,
     quantity |-> quantity, Quantity |-> Quantity, qty |-> qty]

\* a shipment_items payload: an array, or an object with an items member, a
\* ShipmentItems member, both or neither
RawPayload(isArray, elems, hasItems, items, hasShipmentItems, shipmentItems) ==
    [isArray |-> isArray, elems |-> elems, hasItems |-> hasItems,
     items |-> items, hasShipmentItems |-> hasShipmentItems,
     ShipmentItems |-> shipmentItems]

NoRaw == RawPayload(FALSE, <<>>, FALSE, <<>>, FALSE, <<>>)

\* Array.isArray(raw) ? raw : (raw?.items || raw?.ShipmentItems || []): an
\* empty array is truthy
itemsOf(raw) ==
    IF raw.isArray THEN raw.elems
    ELSE IF raw.hasItems THEN raw.items
    ELSE IF raw.hasShipmentItems THEN raw.ShipmentItems
    ELSE <<>>

\* itm?.sku || itm?.SKU || itm?.product?.sku || null
skuRawOf(itm) ==
    IF itm.sku # <<>> THEN itm.sku
    ELSE IF itm.SKU # <<>> THEN itm.SKU
    ELSE itm.product_sku

\* a line without a quantity that counts for nothing
qtyOfMissingZero(itm) ==
    IF itm.quantity # <<>> THEN itm.quantity[1]
    ELSE IF itm.Quantity # <<>> THEN itm.Quantity[1]
    ELSE IF itm.qty # <<>> THEN itm.qty[1]
    ELSE 0

\* Number(itm?.quantity ?? itm?.Quantity ?? itm?.qty ?? 1)
qtyOf(itm) ==
    IF itm.quantity # <<>> THEN itm.quantity[1]
    ELSE IF itm.Quantity # <<>> THEN itm.Quantity[1]
    ELSE IF itm.qty # <<>> THEN itm.qty[1]
    ELSE 1

\* skuRaw and qty of every line, in the order of the payload
LinesOfRaw(raw) ==
    [i \in 1..Len(itemsOf(raw)) |->
        [sku |-> skuRawOf(itemsOf(raw)[i]), quantity |-> qtyOf(itemsOf(raw)[i])]]

\* lines 230-241
LFlatten ==
    /\ lpc = "given"
    /\ lQtyBySku' = Flatten(LinesOfRaw(lRaw), <<>>)
    /\ lIdx' = 0
    /\ lpc' = "loop"
    /\ UNCHANGED <<lRaw, lAttempts>>
    /\ UNCHANGED notL

\* line 244: if (!skuCanon || !qty) continue
LSkipEntry ==
    /\ lpc = "loop"
    /\ lIdx < Len(lQtyBySku)
    /\ lQtyBySku[lIdx + 1].sku = <<>> \/ lQtyBySku[lIdx + 1].qty = 0
    /\ lIdx' = lIdx + 1
    /\ UNCHANGED <<lRaw, lQtyBySku, lAttempts, lpc>>
    /\ UNCHANGED notL

\* lines 243-341: the entry goes on to the marker lookup and the deduction
LAttempt ==
    /\ lpc = "loop"
    /\ lIdx < Len(lQtyBySku)
    /\ lQtyBySku[lIdx + 1].sku # <<>> /\ lQtyBySku[lIdx + 1].qty # 0
    /\ lAttempts' = Append(lAttempts, lQtyBySku[lIdx + 1])
    /\ lIdx' = lIdx + 1
    /\ UNCHANGED <<lRaw, lQtyBySku, lpc>>
    /\ UNCHANGED notL

\* end of the loop over qtyBySku.entries()
LDone ==
    /\ lpc = "loop"
    /\ lIdx = Len(lQtyBySku)
    /\ lpc' = "done"
    /\ UNCHANGED <<lRaw, lQtyBySku, lIdx, lAttempts>>
    /\ UNCHANGED notL

NextL ==
    \/ LFlatten
    \/ LSkipEntry
    \/ LAttempt
    \/ LDone

\* the line items the payloads are built from
RawItemPool ==
    { RawItem(<<"a">>, <<>>, <<>>, <<1>>, <<>>, <<>>),
      RawItem(<<>>, <<"A", " ">>, <<>>, <<>>, <<2>>, <<>>),
      RawItem(<<>>, <<>>, <<"a">>, <<>>, <<>>, <<>>),
      RawItem(<<"b">>, <<>>, <<>>, <<0>>, <<5>>, <<>>),
      RawItem(<<>>, <<>>, <<>>, <<1>>, <<>>, <<>>),
      RawItem(<<" ">>, <<>>, <<>>, <<1>>, <<>>, <<>>),
      RawItem(<<"a">>, <<>>, <<>>, <<-1>>, <<>>, <<>>),
      RawItem(<<"B">>, <<"a">>, <<>>, <<>>, <<>>, <<2>>) }

RawItemLists == UNION {[1..n -> RawItemPool] : n \in 0..MaxLines}

\* every list as an array, as the items member, as the ShipmentItems member,
\* and as the items member next to a ShipmentItems member; and the payload
\* with none of them
RawPayloads ==
    LET other == <<RawItem(<<"b">>, <<>>, <<>>, <<1>>, <<>>, <<>>)>>
    IN {NoRaw}
       \cup {RawPayload(TRUE, l, FALSE, <<>>, FALSE, <<>>) : l \in RawItemLists}
       \cup {RawPayload(FALSE, <<>>, TRUE, l, FALSE, <<>>) : l \in RawItemLists}
       \cup {RawPayload(FALSE, <<>>, FALSE, <<>>, TRUE, l) : l \in RawItemLists}
       \cup {RawPayload(FALSE, <<>>, TRUE, l, TRUE, other) : l \in RawItemLists}

IdleL ==
    /\ lRaw = NoRaw
    /\ lQtyBySku = <<>>
    /\ lIdx = 0
    /\ lAttempts = <<>>
    /\ lpc = "idle"

-----------------------------------------------------------------------------
(* Initial states of the Merger and the Backfiller *)

SsEvent(oid, on, sid, tn, sd, cc, cost) ==
    [order_id |-> oid, order_number |-> on, store_id |-> sid,
     tracking_number |-> tn, ship_date |-> sd, create_date |-> "d0",
     carrier_code |-> cc, shipment_cost |-> cost]

SeEvent(on, tn, sd, cc, amt) ==
    [order_number |-> on, tracking_number |-> tn, ship_date |-> sd,
     create_date |-> "d0", carrier_code |-> cc, shipping_amount |-> amt]

Order(oid, on, sid, st) ==
    [order_id |-> oid, order_number |-> on, store_id |-> sid,
     order_status |-> st, tracking_number |-> NullV, actual_ship_date |-> Null]

\* non-voided, non-return events with a tracking number: what the feed
\* queries of both jobs select
SsPool ==
    { SsEvent("11", "o1", Null, <<"T">>, "d1", Null, "c5"),
      SsEvent(Null, "o1", "s2", <<"T", " ">>, Null, "ups", Null),
      SsEvent(Null, "o2", Null, <<"U">>, "d1", "fedex", "c7"),
      SsEvent(Null, Null, Null, <<" ">>, Null, Null, Null) }

SsFiller(i) == SsEvent(Null, Null, Null, <<"F", "a">>, Null, "ups", Null)

SePool ==
    { SeEvent("o1", <<"T">>, Null, "fedex", "c7"),
      SeEvent("o2", <<"V">>, "d1", Null, Null) }

\* the ShipStation feed: up to MaxEvents events of the pool; the longest
\* feeds also come followed by events that fill every page up to the ceiling
SsFeeds ==
    LET free == UNION {[1..n -> SsPool] : n \in 0..MaxEvents}
        full == PAGE_SIZE * MAX_PAGES
    IN UNION {
         { [i \in 1..(Len(f) + k) |-> IF i <= Len(f) THEN f[i] ELSE SsFiller(i)] :
           k \in {0} \cup (IF Len(f) = MaxEvents /\ Len(f) < full
                           THEN {full - Len(f)} ELSE {}) } :
         f \in free }

SeFeeds == {<<>>} \cup {<<e>> : e \in SePool}

\* orders tables with their label ledger: none; one order number in two
\* stores; orders of which one is only in the ledger; shipped orders that no
\* source knows, enough to fill every page of the Backfiller
OrderTables ==
    { [orders |-> <<>>, ledger |-> <<>>],
      [orders |-> <<Order("11", "o1", "s1", "shipped"),
                    Order("12", "o1", "s2", "Shipped")>>,
       ledger |-> <<>>],
      [orders |-> <<Order("13", "o2", Null, "shipped"),
                    Order("14", "o3", Null, "shipped"),
                    Order("11", "o1", "s1", "awaiting_shipment")>>,
       ledger |-> <<[order_ref |-> "o3", tracking_number |-> <<"T", " ">>,
                     payload |-> Null, created_at |-> "d1"]>>],
      [orders |-> [i \in 1..(FIX_PAGE_SIZE * FIX_MAX_PAGES) |->
                      Order(Null, Null, Null, "shipped")],
       ledger |-> <<>>] }

\* shipments tables with unique tracking numbers: empty, or one row entered
\* before the first run
ShipTables ==
    { <<>>,
      <<NewRow(1, [source |-> <<"manual">>, order_number |-> <<"o1">>,
                   tracking_number |-> <<"T">>, carrier_code |-> <<"usps">>,
                   shipment_cost |-> <<"c1">>])>> }

\* the tables and jobs a specification leaves out are empty and idle
IdleD ==
    /\ dShipments = <<>>
    /\ movements = <<>>
    /\ stock = <<>>
    /\ dStock0 = <<>>
    /\ dMov0 = <<>>
    /\ dErrAt = <<"none", 0>>
    /\ dpc = "idle"
    /\ dPage = 0
    /\ dRows = <<>>
    /\ dIdx = 0
    /\ dLines = <<>>
    /\ dMarker = NoMarker
    /\ dStock = NoStock
    /\ dRuns = 0
    /\ dErrs = 0
    /\ dDeduct = <<>>
    /\ dStamp = <<>>
    /\ dWrites = <<>>

InitM ==
    /\ ssEvents \in SsFeeds
    /\ seEvents \in SeFeeds
    /\ \E t \in OrderTables : orders = t.orders /\ ledger = t.ledger
    /\ shipTbl \in ShipTables
    /\ mpc = "idle"
    /\ mSrc = "ss"
    /\ mPage = 0
    /\ mData = <<>>
    /\ mExisting = <<>>
    /\ mOrderRows = <<>>
    /\ mInserts = <<>>
    /\ mUpdates = <<>>
    /\ bpc = "idle"
    /\ bPage = 0
    /\ bRows = <<>>
    /\ bIdx = 0
    /\ bFound = NoFound
    /\ bQueried = {}
    /\ jobs = 0
    /\ mErrs = 0
    /\ IdleD
    /\ IdleA
    /\ IdleF
    /\ IdleR
    /\ IdleL
    /\ IdleX

IdleM ==
    /\ ssEvents = <<>>
    /\ seEvents = <<>>
    /\ orders = <<>>
    /\ ledger = <<>>
    /\ shipTbl = <<>>
    /\ mpc = "idle"
    /\ mSrc = "ss"
    /\ mPage = 0
    /\ mData = <<>>
    /\ mExisting = <<>>
    /\ mOrderRows = <<>>
    /\ mInserts = <<>>
    /\ mUpdates = <<>>
    /\ bpc = "idle"
    /\ bPage = 0
    /\ bRows = <<>>
    /\ bIdx = 0
    /\ bFound = NoFound
    /\ bQueried = {}
    /\ jobs = 0
    /\ mErrs = 0

InitD ==
    /\ dShipments \in ShipmentLists
    /\ movements \in MovementTables
    /\ stock \in {t \in StockTables : t[1].available <= t[1].on_hand}
    /\ dStock0 = stock
    /\ dMov0 = movements
    /\ dErrAt = <<"none", 0>>
    /\ dpc = "idle"
    /\ dPage = 0
    /\ dRows = <<>>
    /\ dIdx = 0
    /\ dLines = <<>>
    /\ dMarker = NoMarker
    /\ dStock = NoStock
    /\ dRuns = 0
    /\ dErrs = 0
    /\ dDeduct = <<>>
    /\ dStamp = <<>>
    /\ dWrites = <<>>
    /\ IdleM
    /\ IdleA
    /\ IdleF
    /\ IdleR
    /\ IdleL
    /\ IdleX

(* The Deductor alone *)
SpecD == InitD /\ [][NextD]_vars

(* The Merger and the Backfiller, one run at a time *)
NextMB ==
    \/ NextM
    \/ NextB

SpecM == InitM /\ [][NextMB]_vars

\* the Merger alone, run after run over the same feeds and orders
SpecR == InitM /\ [][NextM]_vars

\* the Backfiller alone, started by its schedule again and again: a step that
\* can be taken is taken
SpecB == InitM /\ [][NextB]_vars /\ WF_vars(NextB)

(* The three paginated jobs together, every started run carried on: feeds
   that end on a short page, on an empty page, and that fill every page *)
PagingShipments(n) ==
    [i \in 1..n |->
        IF i = 1 THEN WithId([items |-> <<Item(<<"a">>, 1)>>,
                              order_number |-> Null, bad |-> FALSE], 1)
        ELSE IF i = 2 THEN WithId([items |-> <<Item(<<"a">>, 1), Item(<<"B">>, 1)>>,
                                   order_number |-> "o1", bad |-> FALSE], 2)
        ELSE WithId(Filler, i)]

PagingFeed(n) ==
    [i \in 1..n |->
        IF i <= 2 THEN SsEvent("11", "o1", Null, <<"T">>, "d1", Null, "c5")
        ELSE SsFiller(i)]

\* the tables of the three jobs: all empty; short first pages; a full page
\* followed by an empty one; every page full up to the ceiling
PagingWorlds ==
    { [d |-> PagingShipments(0), ss |-> PagingFeed(0), se |-> <<>>, o |-> 1],
      [d |-> PagingShipments(1), ss |-> PagingFeed(1),
       se |-> <<SeEvent("o1", <<"T">>, Null, "fedex", "c7")>>, o |-> 3],
      [d |-> PagingShipments(RECON_PAGE_SIZE), ss |-> PagingFeed(PAGE_SIZE),
       se |-> <<>>, o |-> 2],
      [d |-> PagingShipments(RECON_PAGE_SIZE * RECON_MAX_PAGES),
       ss |-> PagingFeed(PAGE_SIZE * MAX_PAGES),
       se |-> <<SeEvent("o2", <<"V">>, "d1", Null, Null)>>, o |-> 4] }

InitP ==
    /\ \E w \in PagingWorlds :
          /\ dShipments = w.d
          /\ ssEvents = w.ss
          /\ seEvents = w.se
          /\ \E t \in OrderTables :
                /\ orders = t.orders
                /\ ledger = t.ledger
                /\ CASE w.o = 1 -> orders = <<>>
                     [] w.o = 2 -> Len(orders) = 2
                     [] w.o = 3 -> Len(orders) = 3
                     [] w.o = 4 -> Len(orders) = FIX_PAGE_SIZE * FIX_MAX_PAGES
    /\ movements \in {m \in MovementTables : DOMAIN m = {1, 3}}
    /\ stock \in {t \in StockTables : t[1].available = 1 /\ t[1].on_hand = 1}
    /\ dStock0 = stock
    /\ dMov0 = movements
    /\ dErrAt = <<"none", 0>>
    /\ dpc = "idle"
    /\ dPage = 0
    /\ dRows = <<>>
    /\ dIdx = 0
    /\ dLines = <<>>
    /\ dMarker = NoMarker
    /\ dStock = NoStock
    /\ dRuns = MaxRuns - 1
    /\ dErrs = 0
    /\ dDeduct = <<>>
    /\ dStamp = <<>>
    /\ dWrites = <<>>
    /\ shipTbl = <<>>
    /\ mpc = "idle"
    /\ mSrc = "ss"
    /\ mPage = 0
    /\ mData = <<>>
    /\ mExisting = <<>>
    /\ mOrderRows = <<>>
    /\ mInserts = <<>>
    /\ mUpdates = <<>>
    /\ bpc = "idle"
    /\ bPage = 0
    /\ bRows = <<>>
    /\ bIdx = 0
    /\ bFound = NoFound
    /\ bQueried = {}
    /\ jobs = MaxJobs - 2
    /\ mErrs = 0
    /\ IdleA
    /\ IdleF
    /\ IdleR
    /\ IdleL
    /\ IdleX

NextP ==
    \/ NextD
    \/ NextM
    \/ NextB

SpecP == InitP /\ [][NextP]_vars /\ WF_vars(NextP)

(* The Alert Manager, and what changes its inputs between two runs *)
InitA ==
    /\ aItems \in ItemLists
    /\ aStock \in StockLists
    /\ aAlerts = <<>>
    /\ aHasIndex \in BOOLEAN
    /\ aNullEq \in BOOLEAN
    /\ apc = "idle"
    /\ aDemand = <<>>
    /\ aPickable = <<>>
    /\ aBack = <<>>
    /\ aTotal = <<>>
    /\ aIdx = 0
    /\ aPayload = NoPayload
    /\ aExisting = 0
    /\ aRuns = 0
    /\ aErrs = 0
    /\ aRunErr = FALSE
    /\ aFresh = FALSE
    /\ aLast = NoLast
    /\ IdleD
    /\ IdleM
    /\ IdleF
    /\ IdleR
    /\ IdleL
    /\ IdleX

SpecA == InitA /\ [][NextA]_vars

(* The fill-missing merge on its own *)
InitF ==
    /\ fExisting \in MergeRecords
    /\ fCandidate \in MergeRecords
    /\ fUpdate = <<>>
    /\ fMerged = <<>>
    /\ fpc = "given"
    /\ IdleD
    /\ IdleM
    /\ IdleA
    /\ IdleR
    /\ IdleL
    /\ IdleX

SpecF == InitF /\ [][NextF]_vars

(* The SKU resolver on its own *)
InitS ==
    /\ rRaw \in RawSkus
    /\ rProducts \in ProductCatalogs
    /\ rBundles \in BundleCatalogs
    /\ rResult = NoResult
    /\ rpc = "given"
    /\ IdleD
    /\ IdleM
    /\ IdleA
    /\ IdleF
    /\ IdleX
    /\ IdleL

SpecS == InitS /\ [][NextR]_vars

-----------------------------------------------------------------------------
(* Properties of the Merger and the Backfiller *)

\* C3: once a field of a stored shipment row holds a non-null value, no later
\* step of a run changes it, whichever field of the candidate record it is
C3_NeverOverwrites ==
    [][\A i \in 1..Len(shipTbl) : \A f \in ShipFields :
          shipTbl[i][f] # NullV => shipTbl'[i][f] = shipTbl[i][f]]_vars

\* C5: no two rows of the shipments table have the same tracking number
C5_TrackingUnique ==
    \A i, j \in 1..Len(shipTbl) :
        i # j => shipTbl[i].tracking_number # shipTbl[j].tracking_number

\* C4: the update holds exactly the candidate's non-null values of the fields
\* that existing has null or lacks; written to existing, it keeps every
\* non-null value (FedEx stays FedEx against UPS) and fills every null one
C4_FillMissingOnly ==
    fpc = "merged" =>
        /\ DOMAIN fUpdate =
               {k \in DOMAIN fCandidate :
                   /\ fCandidate[k] # NullV
                   /\ (k \notin DOMAIN fExisting \/ fExisting[k] = NullV)}
        /\ \A k \in DOMAIN fUpdate : fUpdate[k] = fCandidate[k]
        /\ \A k \in DOMAIN fExisting :
               fExisting[k] # NullV => fMerged[k] = fExisting[k]
        /\ \A k \in DOMAIN fCandidate :
               (k \notin DOMAIN fExisting \/ fExisting[k] = NullV)
                   /\ fCandidate[k] # NullV
               => fMerged[k] = fCandidate[k]
        /\ \A k \in DOMAIN fExisting \cap DOMAIN fCandidate :
               /\ (fExisting[k] = <<"FedEx">> /\ fCandidate[k] = <<"UPS">>)
                      => fMerged[k] = <<"FedEx">>
               /\ (fExisting[k] = NullV /\ fCandidate[k] = <<"UPS">>)
                      => fMerged[k] = <<"UPS">>

\* an existing record with carrier FedEx and no ship date, merged with a
\* candidate that has UPS for both
C4_Witness ==
    /\ fpc = "merged"
    /\ fExisting = [carrier_code |-> <<"FedEx">>, ship_date |-> NullV]
    /\ fCandidate = [carrier_code |-> <<"UPS">>, ship_date |-> <<"UPS">>]
    /\ fMerged = [carrier_code |-> <<"FedEx">>, ship_date |-> <<"UPS">>]

-----------------------------------------------------------------------------
(* Properties of the Alert Manager *)

\* C8: the alert derived for a SKU of the demand map is purchase/high when
\* qtyNeeded > total, otherwise restock/medium when qtyNeeded > pickable and
\* backstock > 0, otherwise none; so are the three examples
C8_AlertRule ==
    /\ aLast.sku # <<>> =>
          IF aLast.qtyNeeded > aLast.total
          THEN aLast.alertType = "purchase" /\ aLast.severity = "high"
          ELSE IF aLast.qtyNeeded > aLast.available /\ aLast.back > 0
          THEN aLast.alertType = "restock" /\ aLast.severity = "medium"
          ELSE aLast.alertType = Null
    /\ apc \in {"fbSelect", "fbUpdate", "fbInsert"} =>
          /\ aPayload.alert_type = aLast.alertType
          /\ aPayload.severity = aLast.severity
          /\ aPayload.message = aLast.sku
    /\ \A p, b \in {0, 20, 50} :
          Derive(100, p, b, 50) = [alertType |-> "purchase", severity |-> "high"]
    /\ Derive(100, 20, 50, 200) = [alertType |-> "restock", severity |-> "medium"]
    /\ \A b \in {0, 50} : \A t \in {10, 20, 70} :
          Derive(10, 20, b, t).alertType = Null

\* a SKU short of everything with backstock left got its purchase alert, and
\* the row is in the table
C8_Witness ==
    /\ aLast.alertType = "purchase"
    /\ aLast.back > 0
    /\ aLast.qtyNeeded > aLast.available
    /\ \E i \in 1..Len(aAlerts) :
          /\ aAlerts[i].message = aLast.sku
          /\ aAlerts[i].alert_type = "purchase"
          /\ aAlerts[i].severity = "high"
          /\ aAlerts[i].is_active

\* the alert the rule gives a SKU on the tables as they are
AlertNow(sku) ==
    LET pick == GetOr(Pickable(PickableRows, <<>>), sku, NoPick)
        hits == {i \in 1..Len(Demand(aItems, <<>>)) :
                    Demand(aItems, <<>>)[i].sku = sku}
        qtyNeeded == IF hits = {} THEN 0
                     ELSE Demand(aItems, <<>>)[CHOOSE i \in hits : TRUE].qty
    IN [alertType |-> Derive(qtyNeeded, pick.available,
                             GetOr(backstockBySku, sku, 0),
                             GetOr(totalBySku, sku, 0)).alertType,
        client_id |-> pick.client_id]

\* C9: when a run has ended without a store error, a SKU that needs neither
\* a purchase nor a restock has no active alert row of its client left
C9_AlertsSelfClear ==
    (apc = "idle" /\ aFresh) =>
        \A i \in 1..Len(aAlerts) :
            (/\ aAlerts[i].is_active
             /\ aAlerts[i].item_type = "client_product"
             /\ aAlerts[i].client_id = AlertNow(aAlerts[i].message).client_id)
            => AlertNow(aAlerts[i].message).alertType # Null

\* the logical key of an alert row
KeyOf(r) == <<r.client_id, r.item_type, r.alert_type, r.message>>

\* C10: after every step no two active alert rows have the same logical key,
\* and every row that was in the table is still there
C10_OneActivePerKey ==
    [][/\ \A i, j \in 1..Len(aAlerts') :
             (i # j /\ aAlerts'[i].is_active /\ aAlerts'[j].is_active)
             => KeyOf(aAlerts'[i]) # KeyOf(aAlerts'[j])
       /\ Len(aAlerts') >= Len(aAlerts)
       /\ \A i \in 1..Len(aAlerts) : aAlerts'[i].id = aAlerts[i].id]_vars

-----------------------------------------------------------------------------
(* Properties of the paginated loops *)

\* the Deductor fetches no page past the ceiling, passes from a fetch to the
\* rows of a non-empty page or to the end, and comes back to fetch only
\* after a full page, one page further
DPaging ==
    /\ (dpc = "page" /\ dPage >= RECON_MAX_PAGES) => dpc' = "idle"
    /\ (dpc = "page" /\ dpc' # "idle") =>
          /\ dpc' # "page"
          /\ dRows' = PageRows(dPage)
          /\ dRows' # <<>>
    /\ (dpc \notin {"page", "idle"} /\ dpc' = "page") =>
          /\ Len(dRows) = RECON_PAGE_SIZE
          /\ dPage' = dPage + 1

\* the same for each pass of the Merger; a pass ends when the feed changes
MPaging ==
    /\ (mpc = "fetch" /\ mPage >= MAX_PAGES) => mSrc' # mSrc
    /\ (mpc = "fetch" /\ mSrc' = mSrc) =>
          /\ mpc' = "existing"
          /\ mData' = FeedPage(mSrc, mPage)
          /\ mData' # <<>>
    /\ (mpc \notin {"fetch", "idle"} /\ mpc' = "fetch" /\ mSrc' = mSrc) =>
          /\ Len(mData) = PAGE_SIZE
          /\ mPage' = mPage + 1
    /\ (mpc \notin {"fetch", "idle"} /\ Len(mData) < PAGE_SIZE) =>
          (mpc' = "fetch" => mSrc' # mSrc)

\* the same for the Backfiller
BPaging ==
    /\ (bpc = "fetch" /\ bPage >= FIX_MAX_PAGES) => bpc' = "idle"
    /\ (bpc = "fetch" /\ bpc' # "idle") =>
          /\ bpc' = "find"
          /\ bRows' = FixPage(bPage)
          /\ bRows' # <<>>
    /\ (bpc \notin {"fetch", "idle"} /\ bpc' = "fetch") =>
          /\ Len(bRows) = FIX_PAGE_SIZE
          /\ bPage' = bPage + 1

\* C11: every paginated loop ends in every run: it stops after the first
\* page that is short, empty or an error, and fetches max-pages pages and no
\* more when every page is full
C11_PagingTerminates ==
    /\ [](dPage <= RECON_MAX_PAGES /\ mPage <= MAX_PAGES /\ bPage <= FIX_MAX_PAGES)
    /\ [][DPaging /\ MPaging /\ BPaging]_vars
    /\ (dpc # "idle" \/ mpc # "idle" \/ bpc # "idle")
          ~> (dpc = "idle" /\ mpc = "idle" /\ bpc = "idle")

\* the Deductor at the ceiling after full pages, with a Merger run and a
\* Backfiller run behind it
C11_Witness ==
    /\ dpc = "page"
    /\ dPage = RECON_MAX_PAGES
    /\ jobs = MaxJobs
    /\ Len(ssEvents) = PAGE_SIZE * MAX_PAGES
    /\ Len(MissingTracking) = FIX_PAGE_SIZE * FIX_MAX_PAGES

-----------------------------------------------------------------------------
(* Properties of repeated runs *)

\* C12: a second or later run of the Merger over unchanged feeds and orders,
\* every store call succeeding, inserts no shipment row and changes no field
\* of a shipment row
C12_MergerRerunNoOp ==
    [][(jobs >= 2 /\ mpc # "idle" /\ mErrs' = 0) => shipTbl' = shipTbl]_vars

\* C13: when the marker read for a line has notes containing the sentinel, the
\* Deductor writes nothing for the line: it goes on to the stock lookup only
\* with an unstamped marker, and a stock-level row or a movement row changes
\* only in the two write steps of a line whose marker was read unstamped
C13_StampedMarkerNoWrite ==
    /\ [](dpc \in {"stockFind", "stockUpd", "stamp"} =>
            ~Contains(dMarker.notes, Sentinel))
    /\ [][(stock' # stock \/ movements' # movements \/ dWrites' # dWrites) =>
            /\ dpc \in {"stockUpd", "stamp"}
            /\ ~Contains(dMarker.notes, Sentinel)]_vars

\* C13 witness: two runs without a store error are complete and a line whose
\* tagged marker is stamped was deducted and stamped once
C13_Witness ==
    /\ dRuns >= 2
    /\ dErrs = 0
    /\ \E i \in 1..Len(dShipments) :
          \E k \in 1..Len(LinesOf(dShipments[i])) :
             LET s  == dShipments[i]
                 ln == LinesOf(s)[k]
             IN /\ TaggedRows(s) # {}
                /\ \A m \in TaggedRows(s) : Contains(movements[m].notes, Sentinel)
                /\ Count(dDeduct, <<s.id, ln.sku>>) = 1
                /\ Count(dStamp, <<s.id, ln.sku>>) = 1

\* C14: a run of the Alert Manager that follows a complete run, with demand,
\* catalog, client inventory and stock levels unchanged in between, adds no
\* alert row and changes no field of an alert row, whether the native upsert
\* or the fallback writes
C14_AlertRerunNoOp ==
    [][(apc # "idle" /\ aFresh) => aAlerts' = aAlerts]_vars

-----------------------------------------------------------------------------
(* The batched Merger against the unbatched path *)

\* C15: for every page and every prior state of the shipments and orders
\* tables, the batched path (one lookup of the page's tracking numbers, one
\* bulk insert, then the updates) leaves the shipments table as the unbatched
\* path does, which looks up and inserts or fills for each event in order
C15_BatchedAsUnbatched ==
    (mpc = "insert" /\ mErrs = 0) =>
        BatchedPage(shipTbl, mInserts, mUpdates) = UnbatchedPage(shipTbl, mData, mSrc)

-----------------------------------------------------------------------------
(* Properties of the Backfiller's sources *)

\* the sources in the order of their priority
SourceOrder == <<"ssId", "ssNum", "se", "ll">>

\* what the query of source q has for order o: the latest row of its key
SourceHit(o, q) ==
    CASE q = "ssId" ->
           IF o.order_id = Null THEN NoFound
           ELSE FromShipStationRow(Latest(ssEvents,
                   {i \in 1..Len(ssEvents) : ssEvents[i].order_id = o.order_id}))
      [] q = "ssNum" ->
           IF o.order_number = Null THEN NoFound
           ELSE FromShipStationRow(Latest(ssEvents,
                   {i \in 1..Len(ssEvents) : ssEvents[i].order_number = o.order_number}))
      [] q = "se" -> findFromShipEngine(o, "none")
      [] q = "ll" -> findFromLabelLedger(o, "none")

\* C16: for every order the Backfiller processes, the tracking number and
\* ship date it goes on to apply are those of a source that was queried and
\* returned them; no source of lower priority was queried; without a query
\* error no source of higher priority had a hit, and no hit is passed over
C16_SourcePriority ==
    [][bpc = "find" =>
        LET o == bRows[bIdx]
        IN /\ bpc' = "updOrder" =>
                \E k \in 1..4 :
                   /\ SourceOrder[k] \in bQueried'
                   /\ SourceHit(o, SourceOrder[k]) # NoFound
                   /\ bFound' = SourceHit(o, SourceOrder[k])
                   /\ \A j \in (k + 1)..4 : SourceOrder[j] \notin bQueried'
                   /\ mErrs' = mErrs =>
                         \A j \in 1..(k - 1) : SourceHit(o, SourceOrder[j]) = NoFound
           /\ (bpc' # "updOrder" /\ mErrs' = mErrs) =>
                \A k \in 1..4 : SourceHit(o, SourceOrder[k]) = NoFound]_vars

\* C16 witness: the order in hand has a ShipStation hit by its order number
\* only, which was taken, and another tracking number in ShipEngine, which
\* was not queried
C16_Witness ==
    /\ bpc = "updOrder"
    /\ SourceHit(bRows[bIdx], "ssId") = NoFound
    /\ SourceHit(bRows[bIdx], "se") # NoFound
    /\ SourceHit(bRows[bIdx], "se") # SourceHit(bRows[bIdx], "ssNum")
    /\ bFound = SourceHit(bRows[bIdx], "ssNum")
    /\ bQueried = {"ssId", "ssNum"}

\* the tracking number of the i-th order, null when there is no such order
TrackingOfOrder(i) ==
    IF i <= Len(orders) THEN orders[i].tracking_number ELSE NullV

\* C17: whenever the Backfiller has written a tracking number to an order, a
\* shipment row with that tracking number exists from some point on: it was
\* there, or the same run inserts it, or a later run of the Backfiller does
\* (an orders table has at most page size times max pages rows)
C17_ShipmentEventuallyExists ==
    \A i \in 1..(FIX_PAGE_SIZE * FIX_MAX_PAGES) :
        (TrackingOfOrder(i) # NullV)
            ~> (\E j \in 1..Len(shipTbl) :
                   shipTbl[j].tracking_number = TrackingOfOrder(i))

-----------------------------------------------------------------------------
(* Properties of the SKU resolver *)

\* the normalized SKU and the two maps of the call
RNorm == normalizeSku(rRaw)

RProductMap == ProductMapOf(rProducts)

RBundleMap == BundleMapOf(rBundles)

\* the keys of a map that are a prefix of the normalized SKU
PrefixKeys(map) ==
    {k \in DOMAIN map : \E n \in 1..Len(RNorm) : k = SubSeq(RNorm, 1, n)}

Separators == {"-", "_", "."}

\* the part of a text before its first separator
BeforeFirstSeparator(t) ==
    LET seps == {i \in 1..Len(t) : t[i] \in Separators}
    IN IF seps = {} THEN t
       ELSE SubSeq(t, 1, (CHOOSE i \in seps : \A j \in seps : i <= j) - 1)

-----------------------------------------------------------------------------
(* Properties of the Deductor's error handling *)

\* the number of shipments of the window the running loop has entered
Entered ==
    IF dpc = "page" THEN dPage * RECON_PAGE_SIZE
    ELSE dPage * RECON_PAGE_SIZE + dIdx

\* the shipments the paginated loop can get to
InWindow ==
    IF Len(dShipments) < RECON_PAGE_SIZE * RECON_MAX_PAGES
    THEN Len(dShipments) ELSE RECON_PAGE_SIZE * RECON_MAX_PAGES

\* C21 (as claimed): a shipment whose line-item payload is malformed is
\* skipped on its own: a run that meets no store error does not end while a
\* well-formed shipment of the pages of the window is left after the shipment
\* it is about to enter
C21_MalformedSkippedAlone ==
    [][(dpc # "idle" /\ dpc' = "idle" /\ dErrs' = dErrs)
          => \A j \in (Entered + 2)..InWindow : dShipments[j].bad]_vars

-----------------------------------------------------------------------------
(* Properties of the jobs' error handling *)

\* C22 (as claimed): a failed read never lets a run go on as if the result
\* were empty: the Merger inserts the candidates of a page only when the
\* batch lookup of the existing shipments returned the rows the table holds
C22_NoInsertOnFailedRead ==
    [][(mpc = "insert" /\ shipTbl' # shipTbl)
          => mExisting = buildExistingShipmentMap(ExistingRows(Trackings(mData)))]_vars

-----------------------------------------------------------------------------
(* Properties of the Demand Aggregator and of the stock maps *)

\* the base SKU an awaiting order line resolves to
BaseOf(it) == normalizeSku(resolveSku(it.sku, productMap, bundleMap).baseSku)

\* the awaiting order lines that resolve to base SKU b
LinesOfBase(b) == {i \in 1..Len(aItems) : BaseOf(aItems[i]) = b}

RECURSIVE SumQuantities(_)
SumQuantities(S) ==
    IF S = {} THEN 0
    ELSE LET i == CHOOSE x \in S : TRUE
         IN aItems[i].quantity + SumQuantities(S \ {i})

\* C23: the demand map holds one entry per non-empty base SKU some awaiting
\* order line resolves to, its quantity is the sum of the quantities of the
\* lines resolving to it, a line with an empty base SKU adds nothing, and the
\* step that builds the map writes nothing to the store
C23_DemandIsSum ==
    /\ [](apc = "ci" =>
            /\ \A k \in 1..Len(aDemand) :
                  /\ aDemand[k].sku # <<>>
                  /\ aDemand[k].qty = SumQuantities(LinesOfBase(aDemand[k].sku))
                  /\ \A j \in 1..Len(aDemand) :
                        aDemand[j].sku = aDemand[k].sku => j = k
            /\ \A i \in 1..Len(aItems) :
                  BaseOf(aItems[i]) # <<>> =>
                     \E k \in 1..Len(aDemand) : aDemand[k].sku = BaseOf(aItems[i]))
    /\ [][apc = "orders" =>
            /\ aAlerts' = aAlerts
            /\ aStock' = aStock
            /\ aItems' = aItems
            /\ UNCHANGED <<stock, movements, shipTbl, orders>>]_vars

\* C23 witness: the map was built from two lines of different raw SKUs and
\* quantities that resolve to one base SKU
C23_Witness ==
    /\ apc = "ci"
    /\ Len(aItems) = 2
    /\ aItems[1].sku # aItems[2].sku
    /\ Len(aDemand) = 1
    /\ aDemand[1].qty = 3

\* the stock-level rows of SKU sku at the locations of the given types; a row
\* whose item_id has no client-inventory mapping belongs to no SKU
RowsOfSku(sku, types) ==
    {i \in 1..Len(aStock) :
        /\ LastOfId(aStock[i].item_id) # 0
        /\ idToSku(aStock[i].item_id) = sku
        /\ aStock[i].type \in types}

RECURSIVE SumColumn(_, _)
SumColumn(S, col) ==
    IF S = {} THEN 0
    ELSE LET i == CHOOSE x \in S : TRUE
         IN aStock[i][col] + SumColumn(S \ {i}, col)

\* the SKUs of client inventory, and the client that owns a SKU
MappedSkus == {normalizeSku(ClientInventory[i].sku) : i \in 1..Len(ClientInventory)}

OwnerOf(sku) ==
    LET i == CHOOSE x \in 1..Len(ClientInventory) :
                 normalizeSku(ClientInventory[x].sku) = sku
    IN ClientInventory[i].client_id

\* the three figures of the Stock Ledger View are the sums the contract names
LedgerFigures ==
    \A sku \in MappedSkus \cup DOMAIN aPickable \cup DOMAIN aBack \cup DOMAIN aTotal :
        /\ GetOr(aPickable, sku, NoPick).available =
              SumColumn(RowsOfSku(sku, LocationTypes \ {"BackStock", "Production"}),
                        "available")
        /\ GetOr(aBack, sku, 0) = SumColumn(RowsOfSku(sku, {"BackStock"}), "on_hand")
        /\ GetOr(aTotal, sku, 0) = SumColumn(RowsOfSku(sku, LocationTypes), "on_hand")

\* C24 (as claimed): once the maps are built, pickable.available, backstock
\* and total of every SKU are the sums over the mapped stock rows of the
\* pickable, BackStock and all locations, a row without mapping adds to none,
\* and every alert of a SKU that client inventory maps carries the client
\* that owns the SKU
C24_LedgerAndClient ==
    /\ apc = "alert" => LedgerFigures
    /\ \A i \in 1..Len(aAlerts) :
          aAlerts[i].message \in MappedSkus =>
             aAlerts[i].client_id = OwnerOf(aAlerts[i].message)

\* the figures alone, without the client of the alert
LedgerFiguresHold == apc = "alert" => LedgerFigures

-----------------------------------------------------------------------------
(* Properties of the Deductor's SKU resolution *)

\* the id of the client product a SKU is registered as in client inventory,
\* as the text the stock rows carry; Null when the SKU is not registered
ClientItemOf(sku) ==
    LET hits == {i \in 1..Len(ClientInventory) :
                    normalizeSku(ClientInventory[i].sku) = normalizeSku(sku)}
    IN IF hits = {} THEN Null
       ELSE LET i == CHOOSE x \in hits : TRUE
            IN IF ClientInventory[i].id = 4 THEN "4" ELSE "other"

\* the pair (s, ln) has a marker that was not stamped before the first run, a
\* SKU registered in client inventory, and a Batch/Production row of that
\* client product whose available quantity covers the line
ClientEligible(s, ln) ==
    /\ ln.sku # <<>> /\ ln.qty > 0
    /\ TaggedRows(s) \cup NotedRows(s) # {}
    /\ \A m \in TaggedRows(s) \cup NotedRows(s) :
          \A i \in 1..Len(dMov0[m].notes) : dMov0[m].notes[i] # Sentinel
    /\ ClientItemOf(ln.sku) # Null
    /\ \E r \in DOMAIN dStock0 :
          /\ dStock0[r].item_type = "client_product"
          /\ dStock0[r].item_id = ClientItemOf(ln.sku)
          /\ dStock0[r].loc_type \in {"Batch", "Production"}
          /\ dStock0[r].available >= ln.qty

\* C25 (as claimed): after a run in which every store call succeeded, every
\* line whose SKU is registered in client inventory, with an unstamped marker
\* and a sufficient Batch/Production row of the client product, has been
\* deducted from a row of that client product; a line that resolves to
\* neither a client product nor a product has no deduction and no stamp
C25_ClientProductDeducted ==
    (dRuns >= 1 /\ dpc = "idle" /\ dErrs = 0) =>
        \A i \in 1..Len(dShipments) :
            \A k \in 1..Len(LinesOf(dShipments[i])) :
                LET s  == dShipments[i]
                    ln == LinesOf(s)[k]
                IN /\ (Handled(i) /\ ClientEligible(s, ln)) =>
                         /\ Count(dDeduct, <<s.id, ln.sku>>) >= 1
                         /\ \E r \in DOMAIN stock :
                               /\ stock[r].item_type = "client_product"
                               /\ stock[r].item_id = ClientItemOf(ln.sku)
                               /\ stock[r].on_hand < dStock0[r].on_hand
                   /\ (/\ ClientItemOf(ln.sku) = Null
                       /\ resolveSku(ln.sku, productMap, bundleMap).matchType # "product")
                         => /\ Count(dDeduct, <<s.id, ln.sku>>) = 0
                            /\ Count(dStamp, <<s.id, ln.sku>>) = 0

-----------------------------------------------------------------------------
(* Properties of the reconciliation marker *)

\* the eligible lines of shipment s
EligibleLines(s) ==
    {k \in 1..Len(LinesOf(s)) : Eligible(s, LinesOf(s)[k])}

\* C26 (as claimed): the marker is per shipment and per SKU: after a run in
\* which every store call succeeded, every SKU of a shipment with two or
\* more eligible SKUs has been deducted once, and so has every eligible SKU
\* of a shipment that shares its order number with another shipment
C26_MarkerPerShipmentPerSku ==
    (dRuns = 1 /\ dpc = "idle" /\ dErrs = 0) =>
        \A i \in 1..Len(dShipments) :
            LET s == dShipments[i]
                shared == \E j \in 1..Len(dShipments) :
                             /\ j # i
                             /\ Handled(j)
                             /\ s.order_number # Null
                             /\ dShipments[j].order_number = s.order_number
            IN (Handled(i) /\ (Cardinality(EligibleLines(s)) >= 2 \/ shared)) =>
                  \A k \in EligibleLines(s) :
                      Count(dDeduct, <<s.id, LinesOf(s)[k].sku>>) = 1

-----------------------------------------------------------------------------
(* runOnce as a whole: the alert phase of steps 1-5, then the reconciliation
   of step 6. A `return` of the alert phase leaves runOnce; the end of the
   loop of line 134 goes on to the try block of line 207 *)

\* what follows a step of the loop over the demand map: the next SKU, or,
\* after the last one, the first page of the reconciliation (lines 207-213)
ReconFollows ==
    IF apc' = "idle"
    THEN /\ dpc' = "page"
         /\ dPage' = 0
         /\ UNCHANGED <<stock, movements, dShipments, dRows, dIdx, dLines,
                        dMarker, dStock, dRuns, dErrs, dErrAt, dDeduct, dStamp,
                        dWrites, dStock0, dMov0>>
         /\ UNCHANGED <<mvars, fvars, rvars, xvars, lvars>>
    ELSE UNCHANGED notA

\* cron.schedule(POLL_CRON, runOnce) of line 357; a run starts here when the
\* run before it is over
ORunOnce ==
    /\ dpc = "idle"
    /\ AStart

OAlert ==
    /\ AAlertBody
    /\ ReconFollows

OFallbackSelect ==
    /\ AFallbackSelectBody
    /\ ReconFollows

OFallbackUpdate ==
    /\ AFallbackUpdateBody
    /\ ReconFollows

OFallbackInsert ==
    /\ AFallbackInsertBody
    /\ ReconFollows

NextO ==
    \/ ORunOnce
    \/ AFetchOrders
    \/ AFetchClientInventory
    \/ AFetchPickable
    \/ AFetchStock
    \/ OAlert
    \/ OFallbackSelect
    \/ OFallbackUpdate
    \/ OFallbackInsert
    \/ FetchPage
    \/ NextLine
    \/ LookupByShipment
    \/ LookupByOrderNote
    \/ StockFind
    \/ StockUpdate
    \/ StampMarker

\* the stores runOnce is tried on: no awaiting line or one line short of
\* stock, and one shipment of two lines, with or without an order number
InitO ==
    /\ aItems \in {<<>>, <<[sku |-> <<"A", " ">>, quantity |-> 2]>>}
    /\ aStock \in {<<>>, <<[item_id |-> 1, type |-> "Pick", on_hand |-> 1,
                           available |-> 1]>>}
    /\ aAlerts = <<>>
    /\ aHasIndex \in BOOLEAN
    /\ aNullEq \in BOOLEAN
    /\ apc = "idle"
    /\ aDemand = <<>>
    /\ aPickable = <<>>
    /\ aBack = <<>>
    /\ aTotal = <<>>
    /\ aIdx = 0
    /\ aPayload = NoPayload
    /\ aExisting = 0
    /\ aRuns = 0
    /\ aErrs = 0
    /\ aRunErr = FALSE
    /\ aFresh = FALSE
    /\ aLast = NoLast
    /\ dShipments \in
          { <<WithId([items |-> <<Item(<<"a">>, 1), Item(<<"B">>, 1)>>,
                      order_number |-> o, bad |-> FALSE], 1)>> :
            o \in {Null, "o1"} }
    /\ movements \in MovementTables
    /\ stock \in {t \in StockTables : t[1].available = t[1].on_hand}
    /\ dStock0 = stock
    /\ dMov0 = movements
    /\ dErrAt = <<"none", 0>>
    /\ dpc = "idle"
    /\ dPage = 0
    /\ dRows = <<>>
    /\ dIdx = 0
    /\ dLines = <<>>
    /\ dMarker = NoMarker
    /\ dStock = NoStock
    /\ dRuns = 0
    /\ dErrs = 0
    /\ dDeduct = <<>>
    /\ dStamp = <<>>
    /\ dWrites = <<>>
    /\ IdleM
    /\ IdleF
    /\ IdleR
    /\ IdleL
    /\ IdleX

SpecO == InitO /\ [][NextO]_vars

\* C27 (as claimed): the reconciliation runs in every run of runOnce,
\* whatever the alert phase does: the step that ends the alert phase, by a
\* return or by the end of its loop, starts the reconciliation
C27_ReconEveryRun ==
    [][(apc # "idle" /\ apc' = "idle") => (dpc = "idle" /\ dpc' = "page")]_vars

-----------------------------------------------------------------------------
(* Two overlapping runs of the Deductor. Lines 357-363 start runOnce from the
   schedule and once at start-up with no lock between runs; a run gives way
   to the other one at each awaited store call *)

\* the locals of the run that proceeds
Locals == [pc |-> dpc, page |-> dPage, rows |-> dRows, idx |-> dIdx,
           lines |-> dLines, marker |-> dMarker, stock |-> dStock]

\* the run that proceeds waits on its store call and the other run goes on
Switch ==
    /\ dOther # Locals
    /\ dOther' = Locals
    /\ dpc' = dOther.pc
    /\ dPage' = dOther.page
    /\ dRows' = dOther.rows
    /\ dIdx' = dOther.idx
    /\ dLines' = dOther.lines
    /\ dMarker' = dOther.marker
    /\ dStock' = dOther.stock
    /\ UNCHANGED <<stock, movements, dShipments, dRuns, dErrs, dErrAt,
                   dDeduct, dStamp, dWrites, dStock0, dMov0>>
    /\ UNCHANGED <<mvars, avars, fvars, rvars, lvars>>

NextX ==
    \/ StartRun
    \/ FetchPage
    \/ NextLine
    \/ LookupByShipment
    \/ LookupByOrderNote
    \/ StockFind
    \/ StockUpdate
    \/ StampMarker
    \/ Switch

\* the stores the overlapping runs are tried on: one shipment of one or two
\* lines
InitX ==
    /\ dShipments \in
          { <<WithId([items |-> <<Item(<<"a">>, 1)>>, order_number |-> Null,
                      bad |-> FALSE], 1)>>,
            <<WithId([items |-> <<Item(<<"a">>, 1), Item(<<"B">>, 1)>>,
                      order_number |-> "o1", bad |-> FALSE], 1)>> }
    /\ movements \in MovementTables
    /\ stock \in {t \in StockTables : t[1].available = t[1].on_hand}
    /\ dStock0 = stock
    /\ dMov0 = movements
    /\ dErrAt = <<"none", 0>>
    /\ dpc = "idle"
    /\ dPage = 0
    /\ dRows = <<>>
    /\ dIdx = 0
    /\ dLines = <<>>
    /\ dMarker = NoMarker
    /\ dStock = NoStock
    /\ dRuns = 0
    /\ dErrs = 0
    /\ dDeduct = <<>>
    /\ dStamp = <<>>
    /\ dWrites = <<>>
    /\ dOther = IdleRun
    /\ IdleM
    /\ IdleA
    /\ IdleF
    /\ IdleR
    /\ IdleL

SpecX == InitX /\ [][NextX]_vars

\* the (shipment, line) pairs of the window
Pairs ==
    UNION { {<<i, k>> : k \in 1..Len(LinesOf(dShipments[i]))} :
            i \in 1..Len(dShipments) }

RECURSIVE DeductedQty(_)
DeductedQty(P) ==
    IF P = {} THEN 0
    ELSE LET p  == CHOOSE x \in P : TRUE
             s  == dShipments[p[1]]
             ln == LinesOf(s)[p[2]]
         IN Count(dDeduct, <<s.id, ln.sku>>) * ln.qty + DeductedQty(P \ {p})

RECURSIVE OnHandTotal(_, _)
OnHandTotal(tbl, R) ==
    IF R = {} THEN 0
    ELSE LET r == CHOOSE x \in R : TRUE
         IN tbl[r].on_hand + OnHandTotal(tbl, R \ {r})

\* C28 (as claimed): with two runs that overlap, interleaved at their store
\* calls, and no store call failing, every (shipment, SKU) pair is deducted
\* at most once, and when both runs are over on_hand is the initial on_hand
\* less the deducted quantities
C28_OverlapDeductsOnce ==
    dErrs = 0 =>
        /\ \A p \in Pairs :
              Count(dDeduct, <<dShipments[p[1]].id,
                               LinesOf(dShipments[p[1]])[p[2]].sku>>) <= 1
        /\ (dpc = "idle" /\ dOther.pc = "idle") =>
              OnHandTotal(stock, DOMAIN stock) =
                 OnHandTotal(dStock0, DOMAIN dStock0) - DeductedQty(Pairs)

-----------------------------------------------------------------------------
(* The Merger and the Backfiller at the same time. Their schedules (lines
   365-373 of the cron entry point) start each job on its own timer with no
   lock between them; each step is one awaited store call *)

NextC ==
    \/ MBegin
    \/ MFetch
    \/ MExisting
    \/ MOrders
    \/ MInsert
    \/ MUpdate
    \/ BBegin
    \/ BFetch
    \/ BFind
    \/ BUpdateOrder
    \/ BEnsureLookup
    \/ BEnsureInsert

\* feeds and shipped orders without tracking that name the same new tracking
\* numbers; every tracking number is clean and appears once in a feed, and
\* the shipments table is empty
InitC ==
    /\ ssEvents \in { <<SsEvent("11", "o1", Null, <<"T">>, "d1", Null, "c5")>>,
                      <<SsEvent(Null, "o2", Null, <<"U">>, "d1", "fedex", "c7")>>,
                      <<SsEvent("11", "o1", Null, <<"T">>, "d1", Null, "c5"),
                        SsEvent(Null, "o2", Null, <<"U">>, "d1", "fedex", "c7")>> }
    /\ seEvents \in {<<>>, <<SeEvent("o2", <<"V">>, "d1", Null, Null)>>}
    /\ orders \in { <<Order("11", "o1", "s1", "shipped")>>,
                    <<Order("13", "o2", Null, "shipped")>>,
                    <<Order("11", "o1", "s1", "shipped"),
                      Order("13", "o2", Null, "shipped")>> }
    /\ ledger = <<>>
    /\ shipTbl = <<>>
    /\ mpc = "idle"
    /\ mSrc = "ss"
    /\ mPage = 0
    /\ mData = <<>>
    /\ mExisting = <<>>
    /\ mOrderRows = <<>>
    /\ mInserts = <<>>
    /\ mUpdates = <<>>
    /\ bpc = "idle"
    /\ bPage = 0
    /\ bRows = <<>>
    /\ bIdx = 0
    /\ bFound = NoFound
    /\ bQueried = {}
    /\ jobs = 0
    /\ mErrs = 0
    /\ IdleD
    /\ IdleA
    /\ IdleF
    /\ IdleR
    /\ IdleL
    /\ IdleX

SpecC == InitC /\ [][NextC]_vars

\* the same stores with one job at a time
SpecQ == InitC /\ [][NextMB]_vars

\* C29 (as claimed): when the Merger and the Backfiller handle the same new
\* tracking number at the same time and no store call fails, the shipments
\* table holds one row for it: no two rows carry the same tracking number
C29_OneRowPerTracking ==
    mErrs = 0 =>
        \A i \in 1..Len(shipTbl) :
            \A j \in 1..Len(shipTbl) :
                shipTbl[i].tracking_number = shipTbl[j].tracking_number => i = j

-----------------------------------------------------------------------------
(* The jobs of the engine together, one at a time: runOnce, the Merger and
   the Backfiller, each started by its own schedule (lines 357-373) *)

JRunOnce ==
    /\ mpc = "idle"
    /\ bpc = "idle"
    /\ ORunOnce

JMerger ==
    /\ apc = "idle"
    /\ MStart

JBackfiller ==
    /\ apc = "idle"
    /\ BStart

NextJ ==
    \/ JRunOnce
    \/ AFetchOrders
    \/ AFetchClientInventory
    \/ AFetchPickable
    \/ AFetchStock
    \/ OAlert
    \/ OFallbackSelect
    \/ OFallbackUpdate
    \/ OFallbackInsert
    \/ FetchPage
    \/ NextLine
    \/ LookupByShipment
    \/ LookupByOrderNote
    \/ StockFind
    \/ StockUpdate
    \/ StampMarker
    \/ JMerger
    \/ MFetch
    \/ MExisting
    \/ MOrders
    \/ MInsert
    \/ MUpdate
    \/ JBackfiller
    \/ BFetch
    \/ BFind
    \/ BUpdateOrder
    \/ BEnsureLookup
    \/ BEnsureInsert

\* the stores the jobs are tried on: one awaiting line short of stock, one
\* shipment of two lines of order o1 with its markers, one event per feed and
\* two shipped orders without tracking
InitJ ==
    /\ aItems = <<[sku |-> <<"A", " ">>, quantity |-> 2]>>
    /\ aStock \in {<<>>, <<[item_id |-> 1, type |-> "Pick", on_hand |-> 1,
                           available |-> 1]>>}
    /\ aAlerts = <<>>
    /\ aHasIndex \in BOOLEAN
    /\ aNullEq = FALSE
    /\ apc = "idle"
    /\ aDemand = <<>>
    /\ aPickable = <<>>
    /\ aBack = <<>>
    /\ aTotal = <<>>
    /\ aIdx = 0
    /\ aPayload = NoPayload
    /\ aExisting = 0
    /\ aRuns = 0
    /\ aErrs = 0
    /\ aRunErr = FALSE
    /\ aFresh = FALSE
    /\ aLast = NoLast
    /\ dShipments = <<WithId([items |-> <<Item(<<"a">>, 1), Item(<<"B">>, 1)>>,
                              order_number |-> "o1", bad |-> FALSE], 1)>>
    /\ movements \in {t \in MovementTables : 2 \notin DOMAIN t}
    /\ stock \in {t \in StockTables :
                     t[1].available = MaxStock /\ t[1].on_hand = MaxStock}
    /\ dStock0 = stock
    /\ dMov0 = movements
    /\ dErrAt = <<"none", 0>>
    /\ dpc = "idle"
    /\ dPage = 0
    /\ dRows = <<>>
    /\ dIdx = 0
    /\ dLines = <<>>
    /\ dMarker = NoMarker
    /\ dStock = NoStock
    /\ dRuns = 0
    /\ dErrs = 0
    /\ dDeduct = <<>>
    /\ dStamp = <<>>
    /\ dWrites = <<>>
    /\ ssEvents = <<SsEvent("11", "o1", Null, <<"T">>, "d1", Null, "c5")>>
    /\ seEvents = <<SeEvent("o2", <<"V">>, "d1", Null, Null)>>
    /\ orders = <<Order("11", "o1", "s1", "shipped"),
                  Order("13", "o2", Null, "shipped")>>
    /\ ledger = <<>>
    /\ shipTbl = <<>>
    /\ mpc = "idle"
    /\ mSrc = "ss"
    /\ mPage = 0
    /\ mData = <<>>
    /\ mExisting = <<>>
    /\ mOrderRows = <<>>
    /\ mInserts = <<>>
    /\ mUpdates = <<>>
    /\ bpc = "idle"
    /\ bPage = 0
    /\ bRows = <<>>
    /\ bIdx = 0
    /\ bFound = NoFound
    /\ bQueried = {}
    /\ jobs = 0
    /\ mErrs = 0
    /\ IdleF
    /\ IdleR
    /\ IdleL
    /\ IdleX

SpecJ == InitJ /\ [][NextJ]_vars

\* C30: a step of the Alert Manager writes alerts only, a step of the
\* Deductor stock levels and inventory movements only, a step of the Merger
\* shipments only, a step of the Backfiller orders and shipments only; the
\* awaiting order lines, the stock rows the alert phase reads, the shipments
\* of the lookback window, the event feeds and the label ledger are written
\* by no job (the catalog and client inventory are fixed)
C30_JobsWriteOwnEntities ==
    [][/\ apc # "idle" => UNCHANGED <<stock, movements, shipTbl, orders>>
       /\ dpc # "idle" => UNCHANGED <<aAlerts, shipTbl, orders>>
       /\ mpc # "idle" => UNCHANGED <<aAlerts, stock, movements, orders>>
       /\ bpc # "idle" => UNCHANGED <<aAlerts, stock, movements>>
       /\ UNCHANGED <<aItems, aStock, dShipments, ssEvents, seEvents, ledger>>]_vars

\* C30 witness: every job has written: an alert, a deduction and a stamp, a
\* shipment of the Merger, a shipment of the Backfiller and an order update
C30_Witness ==
    /\ aAlerts # <<>>
    /\ dDeduct # <<>>
    /\ dStamp # <<>>
    /\ \E i \in 1..Len(shipTbl) : shipTbl[i].source = <<"shipstation">>
    /\ \E i \in 1..Len(shipTbl) : shipTbl[i].source = <<"orders_fix_cron">>
    /\ \E i \in 1..Len(orders) : orders[i].tracking_number # NullV

-----------------------------------------------------------------------------
(* The stamp follows the decrement *)

\* the (shipment, SKU) pair of the line the run is at
CurPair == <<Cur.id, Head(dLines).sku>>

\* C31: the Deductor stamps a marker only after the stock decrement of the
\* same shipment line succeeded in the same run: no pair is stamped more often
\* than it was deducted; at the stamp the stock row read for the line holds the
\* decremented figure; a stock update that returns an error writes no marker
\* and goes on to the next line; and the only write to the movements is the
\* stamp, which changes the marker of the line alone, keeps its notes and puts
\* the sentinel after them, and sets its sku only if the sku was empty.
C31_StampAfterDecrement ==
    /\ [](/\ \A k \in DOMAIN dStamp : Count(dStamp, k) <= Count(dDeduct, k)
          /\ dpc = "stamp" =>
                /\ Count(dDeduct, CurPair) > 0
                /\ stock[dStock.id].on_hand
                      = dStock.on_hand - Head(dLines).qty)
    /\ [][/\ (dpc = "stockUpd" /\ dErrs' # dErrs) =>
                (movements' = movements /\ stock' = stock /\ dpc' = "line")
          /\ movements' # movements =>
                /\ dpc = "stamp"
                /\ DOMAIN movements' = DOMAIN movements
                /\ \A m \in DOMAIN movements \ {dMarker.id} :
                      movements'[m] = movements[m]
                /\ LET old == movements[dMarker.id]
                       new == movements'[dMarker.id]
                   IN /\ new.notes = old.notes \o <<Sentinel>>
                      /\ new.sku = IF old.sku = <<>>
                                   THEN Head(dLines).sku ELSE old.sku
                      /\ new = [old EXCEPT !.notes = new.notes,
                                           !.sku = new.sku]]_vars

\* a stock update for shipment 1 returned an error and its marker is still
\* unstamped, while the marker of shipment 2, found by its order number, was
\* stamped after its decrement: its earlier notes and its sku are kept
C31_Witness ==
    /\ dErrAt = <<"stockUpd", 1>>
    /\ 1 \in DOMAIN movements /\ movements[1].notes = <<>>
    /\ 3 \in DOMAIN movements
    /\ movements[3].notes = <<"o1", Sentinel>>
    /\ movements[3].sku = <<"q">>
    /\ Count(dDeduct, <<2, <<"a">>>>) = 1
    /\ Count(dStamp, <<2, <<"a">>>>) = 1

\* a marker whose sku was empty is stamped with the SKU of the line
C31_WitnessSku ==
    /\ 1 \in DOMAIN movements
    /\ movements[1].notes = <<Sentinel>>
    /\ movements[1].sku = <<"a">>

-----------------------------------------------------------------------------
(* Which movement row serves as the marker *)

\* the marker the claim names for shipment s: a row tagged with the shipment
\* when there is one, else the most recent order_shipment row naming its order
MarkerRowsFor(s) ==
    IF TaggedRows(s) # {} THEN TaggedRows(s)
    ELSE {m \in NotedRows(s) :
            \A j \in NotedRows(s) :
                movements[j].created_at <= movements[m].created_at}

\* the run holds a marker for the line it is at
HoldsMarker == dpc \in {"stockFind", "stockUpd", "stamp"}

\* C32: the marker used for a shipment line is the movement row tagged
\* reference_type 'shipment' with the shipment's id whenever such a row
\* exists; the most recent order_shipment row whose notes contain the order
\* number is used only when no tagged row exists and the shipment has an order
\* number.
C32_MarkerChoice ==
    HoldsMarker =>
        /\ dMarker.id \in MarkerRowsFor(Cur)
        /\ dMarker.id \notin TaggedRows(Cur) =>
              (TaggedRows(Cur) = {} /\ Cur.order_number # Null)

\* the same choice in the runs whose store calls all succeed
MarkerChoiceNoError ==
    dErrs = 0 => C32_MarkerChoice

-----------------------------------------------------------------------------
(* The flattening of one payload *)

InitL ==
    /\ lRaw \in RawPayloads
    /\ lQtyBySku = <<>>
    /\ lIdx = 0
    /\ lAttempts = <<>>
    /\ lpc = "given"
    /\ IdleD
    /\ IdleM
    /\ IdleA
    /\ IdleF
    /\ IdleR
    /\ IdleX

SpecL == InitL /\ [][NextL]_vars

\* the line items of the payload by its shape
ShapeItems ==
    IF lRaw.isArray THEN lRaw.elems
    ELSE IF lRaw.hasItems THEN lRaw.items
    ELSE IF lRaw.hasShipmentItems THEN lRaw.ShipmentItems
    ELSE <<>>

\* the SKU a line names: that of the first member that has one, none if no
\* member has
StatedSku(itm) ==
    LET named == <<itm.sku, itm.SKU, itm.product_sku>>
        has == {k \in 1..3 : named[k] # <<>>}
    IN IF has = {} THEN <<>>
       ELSE named[CHOOSE k \in has : \A j \in has : k <= j]

\* the quantity a line states: that of the first member that is set, and 1
\* when none is
StatedQty(itm) ==
    LET stated == <<itm.quantity, itm.Quantity, itm.qty>>
        has == {k \in 1..3 : stated[k] # <<>>}
    IN IF has = {} THEN 1
       ELSE stated[CHOOSE k \in has : \A j \in has : k <= j][1]

\* the lines that count: a SKU in one of the members and a quantity that is
\* not zero
CountedLines ==
    {i \in 1..Len(ShapeItems) :
        StatedSku(ShapeItems[i]) # <<>> /\ StatedQty(ShapeItems[i]) # 0}

LinesOfKey(n) ==
    {i \in CountedLines : normalizeSku(StatedSku(ShapeItems[i])) = n}

RECURSIVE SumLineQty(_)
SumLineQty(S) ==
    IF S = {} THEN 0
    ELSE LET i == CHOOSE x \in S : TRUE
         IN StatedQty(ShapeItems[i]) + SumLineQty(S \ {i})

LineKeys == {normalizeSku(StatedSku(ShapeItems[i])) : i \in CountedLines}

\* C33: within one run at most one deduction attempt is made per (shipment,
\* normalized SKU): the lines of a shipment whose raw SKUs normalize to the
\* same value are merged into one entry whose quantity is the sum of their
\* quantities, a missing quantity counting as 1, whether the payload is an
\* array, an object with items or an object with ShipmentItems; lines with no
\* SKU or zero quantity are ignored.
C33_OneAttemptPerSku ==
    /\ \A i, j \in 1..Len(lAttempts) :
          lAttempts[i].sku = lAttempts[j].sku => i = j
    /\ lpc \in {"loop", "done"} =>
          /\ \A i, j \in 1..Len(lQtyBySku) :
                lQtyBySku[i].sku = lQtyBySku[j].sku => i = j
          /\ {lQtyBySku[i].sku : i \in 1..Len(lQtyBySku)} = LineKeys
          /\ \A i \in 1..Len(lQtyBySku) :
                lQtyBySku[i].qty = SumLineQty(LinesOfKey(lQtyBySku[i].sku))
    /\ lpc = "done" =>
          /\ {lAttempts[i].sku : i \in 1..Len(lAttempts)}
                = {n \in LineKeys : n # <<>> /\ SumLineQty(LinesOfKey(n)) # 0}
          /\ \A i \in 1..Len(lAttempts) :
                lAttempts[i].qty = SumLineQty(LinesOfKey(lAttempts[i].sku))

\* an object with ShipmentItems whose three lines name the SKU through three
\* different members and spellings, one of them without a quantity, next to
\* nothing else: one attempt for 'a' with quantity 1 + 2 + 1
C33_Witness ==
    /\ lpc = "done"
    /\ ~lRaw.isArray /\ ~lRaw.hasItems /\ lRaw.hasShipmentItems
    /\ Len(lRaw.ShipmentItems) = 3
    /\ \E i \in 1..3 :
          /\ lRaw.ShipmentItems[i].quantity = <<>>
          /\ lRaw.ShipmentItems[i].Quantity = <<>>
          /\ lRaw.ShipmentItems[i].qty = <<>>
    /\ \E i \in 1..3 : lRaw.ShipmentItems[i].SKU = <<"A", " ">>
    /\ lAttempts = <<[sku |-> <<"a">>, qty |-> 4]>>

-----------------------------------------------------------------------------
(* One tracking number in both feeds *)

\* the events of a feed, within the pages a run reads, whose tracking number
\* is t as it stands
EventsOf(src, t) ==
    {i \in 1..Len(Feed(src)) :
        i <= PAGE_SIZE * MAX_PAGES /\ Feed(src)[i].tracking_number = t}

\* the tracking numbers without surrounding whitespace that one ShipStation
\* event and one ShipEngine event carry
InBothFeeds ==
    {t \in {ssEvents[i].tracking_number : i \in 1..Len(ssEvents)} :
        /\ Trim(t) = t
        /\ Cardinality(EventsOf("ss", t)) = 1
        /\ Cardinality(EventsOf("se", t)) = 1}

\* the candidate record the Merger builds for the one event of t in a feed
CandidateOf(src, t) ==
    LET evt == Feed(src)[CHOOSE i \in EventsOf(src, t) : TRUE]
    IN Candidate(evt, OrderRowsIn({evt.order_number} \ {Null}), src)

\* table tbl holds no row for t that came from anywhere but the feeds
OnlyFromFeeds(tbl, t) ==
    \A i \in 1..Len(tbl) :
        tbl[i].tracking_number = t =>
            tbl[i].source \in {<<"shipstation">>, <<"shipengine">>}

\* table tbl has a single row for t, its source is 'shipstation', and in the
\* columns F it has the ShipStation value wherever the ShipStation candidate
\* set one and otherwise null or the ShipEngine value
MergedRow(tbl, t, F) ==
    LET rows == {i \in 1..Len(tbl) : tbl[i].tracking_number = t}
        ss   == CandidateOf("ss", t)
        se   == CandidateOf("se", t)
    IN /\ Cardinality(rows) = 1
       /\ \A i \in rows :
             /\ tbl[i].source = <<"shipstation">>
             /\ \A f \in F :
                   IF ss[f] # NullV THEN tbl[i][f] = ss[f]
                   ELSE tbl[i][f] \in {NullV, se[f]}

\* a step that ends a Merger run in which no store call failed
MergerRunEnds == mpc # "idle" /\ mpc' = "idle" /\ mErrs' = 0

\* the source of a stored row is never changed
SourceNeverChanges ==
    [][\A i \in 1..Len(shipTbl) :
          shipTbl[i].source # NullV => shipTbl'[i].source = shipTbl[i].source]_vars

\* C34: for a tracking number that is in both feeds and has no shipment row,
\* a Merger run yields a single row whose source is 'shipstation', in which
\* every field the ShipStation candidate set keeps the ShipStation value and
\* ShipEngine values appear only in fields the ShipStation candidate left
\* null; and the source of a row, once set, is never changed by a later run.
C34_ShipStationWins ==
    [][/\ MergerRunEnds =>
             \A t \in InBothFeeds :
                 OnlyFromFeeds(shipTbl', t) => MergedRow(shipTbl', t, ShipFields)
       /\ \A i \in 1..Len(shipTbl) :
             shipTbl[i].source # NullV =>
                 shipTbl'[i].source = shipTbl[i].source]_vars

\* the same for the columns the existing-shipment lookup reads back
MergedRowSelectedColumns ==
    [][MergerRunEnds =>
          \A t \in InBothFeeds :
              OnlyFromFeeds(shipTbl', t) =>
                  MergedRow(shipTbl', t, ShipFields \cap SelectedFields)]_vars

-----------------------------------------------------------------------------
(* A SKU that moves between purchase and restock *)

\* the active alert rows of a SKU for the client and item type of its alert
ActiveAlertsOf(sku) ==
    {i \in 1..Len(aAlerts) :
        /\ aAlerts[i].is_active
        /\ aAlerts[i].item_type = "client_product"
        /\ aAlerts[i].message = sku
        /\ aAlerts[i].client_id = AlertNow(sku).client_id}

\* C35: after a run of the Alert Manager in which the alert type derived for
\* a SKU is purchase or restock, the only active alert rows of that SKU,
\* client and item type have that alert type: the alert of the previous type
\* does not remain active when the SKU moved from one type to the other.
C35_OnlyDerivedTypeActive ==
    (apc = "idle" /\ aFresh) =>
        \A k \in 1..Len(Demand(aItems, <<>>)) :
            LET sku == Demand(aItems, <<>>)[k].sku
            IN AlertNow(sku).alertType # Null =>
                  \A i \in ActiveAlertsOf(sku) :
                      aAlerts[i].alert_type = AlertNow(sku).alertType

\* the same for the SKUs whose alert has a client
OnlyDerivedTypeActiveOfClient ==
    (apc = "idle" /\ aFresh) =>
        \A k \in 1..Len(Demand(aItems, <<>>)) :
            LET sku == Demand(aItems, <<>>)[k].sku
            IN (AlertNow(sku).alertType # Null /\ AlertNow(sku).client_id # Null) =>
                  \A i \in ActiveAlertsOf(sku) :
                      aAlerts[i].alert_type = AlertNow(sku).alertType

-----------------------------------------------------------------------------
(* The Backfiller over orders of more than one page *)

\* three orders, shipped or not, none with a tracking number or a ship date;
\* feeds that know the tracking number of some of them; no shipment row yet
InitK ==
    /\ orders \in { [i \in 1..3 |->
                       Order(<<"11", "13", "14">>[i], <<"o1", "o2", "o3">>[i],
                             Null, st[i])] :
                    st \in [1..3 -> {"shipped", "awaiting_shipment"}] }
    /\ ssEvents \in { <<>>,
                      <<SsEvent("11", "o1", Null, <<"T">>, "d1", Null, "c5")>>,
                      <<SsEvent(Null, "o2", Null, <<"U">>, "d1", "fedex", "c7")>>,
                      <<SsEvent("11", "o1", Null, <<"T">>, "d1", Null, "c5"),
                        SsEvent(Null, "o2", Null, <<"U">>, "d1", "fedex", "c7")>> }
    /\ seEvents \in {<<>>, <<SeEvent("o3", <<"V">>, "d1", Null, Null)>>}
    /\ ledger = <<>>
    /\ shipTbl = <<>>
    /\ mpc = "idle"
    /\ mSrc = "ss"
    /\ mPage = 0
    /\ mData = <<>>
    /\ mExisting = <<>>
    /\ mOrderRows = <<>>
    /\ mInserts = <<>>
    /\ mUpdates = <<>>
    /\ bpc = "idle"
    /\ bPage = 0
    /\ bRows = <<>>
    /\ bIdx = 0
    /\ bFound = NoFound
    /\ bQueried = {}
    /\ jobs = 0
    /\ mErrs = 0
    /\ IdleD
    /\ IdleA
    /\ IdleF
    /\ IdleR
    /\ IdleL
    /\ IdleX

SpecK == InitK /\ [][NextB]_vars

\* the orders the filter of the Backfiller selects
MatchesFilter(o) ==
    /\ o.order_status \in {"shipped", "Shipped"}
    /\ o.tracking_number = NullV
    /\ o.actual_ship_date = Null

\* the orders with status shipped: every order the filter selected at the
\* start of a run is one of them
ShippedOrders ==
    {i \in 1..Len(orders) : orders[i].order_status \in {"shipped", "Shipped"}}

\* an order that is examined when no store call fails is written, and leaves
\* the filter, if a source has a tracking number for it
Fixable(o) == o.order_id # Null /\ FindTracking(o, "none") # NoFound

\* C36: in a single Backfiller run over fewer eligible orders than page size
\* times max pages, every order that matched the filter at the start of the
\* run is examined: orders fixed on an earlier page do not make the paging
\* skip orders of later pages. An order a source has a tracking number for
\* therefore does not match the filter any more when the run has ended.
C36_NoOrderSkipped ==
    (/\ bpc = "idle" /\ jobs = 1 /\ mErrs = 0
     /\ Cardinality(ShippedOrders) < FIX_PAGE_SIZE * FIX_MAX_PAGES) =>
        \A i \in 1..Len(orders) :
            MatchesFilter(orders[i]) => ~Fixable(orders[i])

\* the same when no order of the first page can be fixed
NoOrderSkippedAfterUnfixedPage ==
    (/\ bpc = "idle" /\ jobs = 1 /\ mErrs = 0
     /\ Cardinality(ShippedOrders) < FIX_PAGE_SIZE * FIX_MAX_PAGES
     /\ ssEvents = <<>>) =>
        \A i \in 1..Len(orders) :
            MatchesFilter(orders[i]) => ~Fixable(orders[i])

\* the same after a second run
NoOrderSkippedByTwoRuns ==
    (/\ bpc = "idle" /\ jobs = 2 /\ mErrs = 0
     /\ Cardinality(ShippedOrders) < FIX_PAGE_SIZE * FIX_MAX_PAGES) =>
        \A i \in 1..Len(orders) :
            MatchesFilter(orders[i]) => ~Fixable(orders[i])

-----------------------------------------------------------------------------
(* SKUs that differ only in letter case or whitespace *)

\* raw SKUs in both letter cases, with whitespace and a separator
SpelledSkus == UNION {[1..n -> {"a", "A", "B", "-", " "}] : n \in 0..MaxSkuLen}

\* names of catalog rows as they are typed in: 'a', 'B ' and a blank name
TypedNames == {<<"a">>, <<"B", " ">>, <<" ">>}

TypedCatalogs(prefix, field) ==
    UNION {{[i \in 1..n |-> [id |-> <<prefix, i>>] @@ (field :> f[i])] :
              f \in [1..n -> TypedNames]} : n \in 0..MaxCatalog}

\* the resolver on its own over these SKUs and catalogs
InitN ==
    /\ rRaw \in SpelledSkus
    /\ rProducts \in TypedCatalogs("p", "Sku")
    /\ rBundles \in TypedCatalogs("k", "name")
    /\ rResult = NoResult
    /\ rpc = "given"
    /\ IdleD
    /\ IdleM
    /\ IdleA
    /\ IdleF
    /\ IdleX
    /\ IdleL

SpecN == InitN /\ [][NextR]_vars

\* a text without its whitespace
Squeezed(s) == SelectSeq(s, LAMBDA c : ~IsSpace(c))

\* two texts that differ only in letter case or whitespace
SameButCaseAndSpace(x, y) ==
    /\ Len(Squeezed(x)) = Len(Squeezed(y))
    /\ \A i \in 1..Len(Squeezed(x)) :
          \/ Squeezed(x)[i] = Squeezed(y)[i]
          \/ Lower(Squeezed(x)[i]) = Squeezed(y)[i]
          \/ Squeezed(x)[i] = Lower(Squeezed(y)[i])
          \/ Lower(Squeezed(x)[i]) = Lower(Squeezed(y)[i])

\* the raw SKUs that differ from the resolved one only in that way
Respellings == {y \in SpelledSkus : SameButCaseAndSpace(rRaw, y)}

\* normalizeSku is idempotent and the baseSku returned is a fixed point of it
NormalFormKept ==
    rpc = "resolved" =>
        /\ normalizeSku(normalizeSku(rRaw)) = normalizeSku(rRaw)
        /\ normalizeSku(rResult.baseSku) = rResult.baseSku

\* a line of the resolved SKU and a line of y are summed into one demand
\* entry and one per-shipment quantity entry, or both are left out; the
\* entry of the empty SKU, which the loop over the quantities passes over
\* (line 244), counts as left out
SummedTogether(y) ==
    LET demand == Demand(<<Item(rRaw, 1), Item(y, 2)>>, <<>>)
        qtyBySku == SelectSeq(Flatten(<<Item(rRaw, 1), Item(y, 2)>>, <<>>),
                              LAMBDA e : e.sku # <<>>)
    IN /\ demand = <<>> \/ (Len(demand) = 1 /\ demand[1].qty = 3)
       /\ qtyBySku = <<>> \/ (Len(qtyBySku) = 1 /\ qtyBySku[1].qty = 3)

\* y resolves as the resolved SKU did
SameResolution(y) ==
    LET other == resolveSku(y, RProductMap, RBundleMap)
    IN other.baseSku = rResult.baseSku /\ other.matchType = rResult.matchType

\* C37: SKU identity is carried in normalized form: normalizeSku is
\* idempotent, the baseSku returned by resolveSku is a fixed point of
\* normalizeSku, and two raw SKUs that differ only in letter case or
\* whitespace resolve to the same baseSku and matchType and are summed into
\* the same demand entry and the same per-shipment quantity entry.
C37_NormalizedIdentity ==
    rpc = "resolved" =>
        /\ normalizeSku(normalizeSku(rRaw)) = normalizeSku(rRaw)
        /\ normalizeSku(rResult.baseSku) = rResult.baseSku
        /\ \A y \in Respellings : SameResolution(y) /\ SummedTogether(y)

\* the same for the raw SKUs that are more than whitespace
NormalizedIdentityOfNonBlank ==
    (rpc = "resolved" /\ normalizeSku(rRaw) # <<>>) =>
        \A y \in Respellings : SameResolution(y) /\ SummedTogether(y)

\* the same for catalogs without a blank name
NormalizedIdentityWithoutBlankName ==
    (/\ rpc = "resolved"
     /\ \A i \in 1..Len(rProducts) : normalizeSku(rProducts[i].Sku) # <<>>
     /\ \A i \in 1..Len(rBundles) : normalizeSku(rBundles[i].name) # <<>>) =>
        \A y \in Respellings : SameResolution(y) /\ SummedTogether(y)

\* the sums alone, for every raw SKU and catalog
SummedTogetherAlways ==
    rpc = "resolved" => \A y \in Respellings : SummedTogether(y)

=============================================================================
